---------------------------- MODULE Spec2Model ----------------------------
(***************************************************************************)
(* A model of JS::Value (js/public/Value.h): the 64-bit tagged word, its   *)
(* two encodings (JS_NUNBOX32 and JS_PUNBOX64), its mutators, factories,   *)
(* predicates and extractors.                                              *)
(*                                                                         *)
(* TLC's integers are 32-bit, so a machine word is a tuple of 16-bit      *)
(* limbs, most significant first: a uint64_t is <<a, b, c, d>> standing    *)
(* for a*2^48 + b*2^32 + c*2^16 + d, a uint32_t is <<h, l>>.  An int32_t   *)
(* is a TLA+ integer in -2^31 .. 2^31-1.  A double is the uint64_t holding *)
(* its IEEE-754 bits, a float the uint32_t holding its bits.               *)
(***************************************************************************)
EXTENDS Integers, Sequences, FiniteSets, TLC

(***************************************************************************)
(* Bounds of the model.                                                    *)
(***************************************************************************)
\* int32 inputs are -MaxSmallInt .. MaxSmallInt and the boundary values
MaxSmallInt == 1
\* cell addresses are 8*k for k in 1 .. MaxCells, and the boundary addresses
MaxCells == 2

(***************************************************************************)
(* Machine arithmetic on limbs.                                            *)
(***************************************************************************)
Limb == 256 * 256

RECURSIVE BitAnd(_, _)
BitAnd(x, y) ==
  IF x = 0 \/ y = 0 THEN 0
  ELSE (x % 2) * (y % 2) + 2 * BitAnd(x \div 2, y \div 2)

RECURSIVE BitOr(_, _)
BitOr(x, y) ==
  IF x = 0 THEN y
  ELSE IF y = 0 THEN x
  ELSE (IF x % 2 = 1 \/ y % 2 = 1 THEN 1 ELSE 0) + 2 * BitOr(x \div 2, y \div 2)

RECURSIVE BitXor(_, _)
BitXor(x, y) ==
  IF x = 0 THEN y
  ELSE IF y = 0 THEN x
  ELSE ((x + y) % 2) + 2 * BitXor(x \div 2, y \div 2)

\* w1 & w2, w1 | w2, w1 ^ w2, ~w on words of the same width (2 or 4 limbs)
And(w1, w2) ==
  IF Len(w1) = 2 THEN <<BitAnd(w1[1], w2[1]), BitAnd(w1[2], w2[2])>>
  ELSE <<BitAnd(w1[1], w2[1]), BitAnd(w1[2], w2[2]),
         BitAnd(w1[3], w2[3]), BitAnd(w1[4], w2[4])>>
Or(w1, w2) ==
  IF Len(w1) = 2 THEN <<BitOr(w1[1], w2[1]), BitOr(w1[2], w2[2])>>
  ELSE <<BitOr(w1[1], w2[1]), BitOr(w1[2], w2[2]),
         BitOr(w1[3], w2[3]), BitOr(w1[4], w2[4])>>
Xor(w1, w2) ==
  IF Len(w1) = 2 THEN <<BitXor(w1[1], w2[1]), BitXor(w1[2], w2[2])>>
  ELSE <<BitXor(w1[1], w2[1]), BitXor(w1[2], w2[2]),
         BitXor(w1[3], w2[3]), BitXor(w1[4], w2[4])>>
Not(w) ==
  IF Len(w) = 2 THEN <<(Limb - 1) - w[1], (Limb - 1) - w[2]>>
  ELSE <<(Limb - 1) - w[1], (Limb - 1) - w[2], (Limb - 1) - w[3], (Limb - 1) - w[4]>>

\* unsigned comparison of two words of the same width
RECURSIVE LtFrom(_, _, _)
LtFrom(w1, w2, i) ==
  IF i > Len(w1) THEN FALSE
  ELSE IF w1[i] # w2[i] THEN w1[i] < w2[i]
  ELSE LtFrom(w1, w2, i + 1)

Lt(w1, w2) == LtFrom(w1, w2, 1)
Le(w1, w2) == ~Lt(w2, w1)
Gt(w1, w2) == Lt(w2, w1)
Ge(w1, w2) == ~Lt(w1, w2)

\* w1 + w2 modulo 2^width: unsigned addition wraps (limb Len is the least
\* significant)
Add(w1, w2) ==
  IF Len(w1) = 2
    THEN LET s2 == w1[2] + w2[2]
             s1 == w1[1] + w2[1] + (s2 \div Limb)
         IN  <<s1 % Limb, s2 % Limb>>
  ELSE LET s4 == w1[4] + w2[4]
           s3 == w1[3] + w2[3] + (s4 \div Limb)
           s2 == w1[2] + w2[2] + (s3 \div Limb)
           s1 == w1[1] + w2[1] + (s2 \div Limb)
       IN  <<s1 % Limb, s2 % Limb, s3 % Limb, s4 % Limb>>

\* w1 - w2 modulo 2^width, as w1 + ~w2 + 1
One(w) == IF Len(w) = 2 THEN <<0, 1>> ELSE <<0, 0, 0, 1>>
Sub(w1, w2) == Add(Add(w1, Not(w2)), One(w1))

\* w with its limbs moved one place up (w << 16) or down (w >> 16)
ShlLimb(w) == IF Len(w) = 2 THEN <<w[2], 0>> ELSE <<w[2], w[3], w[4], 0>>
ShrLimb(w) == IF Len(w) = 2 THEN <<0, w[1]>> ELSE <<0, w[1], w[2], w[3]>>

\* w << k and w >> k for 0 <= k < 16
ShlBits(w, k) ==
  LET m == 2^k
      d == 2^(16 - k)
  IN  IF Len(w) = 2
        THEN <<((w[1] * m) % Limb) + (w[2] \div d), (w[2] * m) % Limb>>
      ELSE <<((w[1] * m) % Limb) + (w[2] \div d),
             ((w[2] * m) % Limb) + (w[3] \div d),
             ((w[3] * m) % Limb) + (w[4] \div d),
             (w[4] * m) % Limb>>
ShrBits(w, k) ==
  LET m == 2^k
      d == 2^(16 - k)
  IN  IF Len(w) = 2
        THEN <<w[1] \div m, (w[2] \div m) + ((w[1] % m) * d)>>
      ELSE <<w[1] \div m,
             (w[2] \div m) + ((w[1] % m) * d),
             (w[3] \div m) + ((w[2] % m) * d),
             (w[4] \div m) + ((w[3] % m) * d)>>

\* w << n and w >> n within the word's width, for 0 <= n
RECURSIVE Shl(_, _)
Shl(w, n) ==
  IF n = 0 THEN w
  ELSE IF n >= 16 THEN Shl(ShlLimb(w), n - 16)
  ELSE ShlBits(w, n)

RECURSIVE Shr(_, _)
Shr(w, n) ==
  IF n = 0 THEN w
  ELSE IF n >= 16 THEN Shr(ShrLimb(w), n - 16)
  ELSE ShrBits(w, n)

Zero64 == <<0, 0, 0, 0>>
Zero32 == <<0, 0>>

\* uint64_t(u) of a uint32_t u, and uint32_t(w) of a uint64_t w
Widen(u) == <<0, 0, u[1], u[2]>>
Narrow(w) == <<w[3], w[4]>>

\* uint32_t(i) of an int32_t i (two's complement), and int32_t(u) of a uint32_t u
Uint32OfInt(i) == <<(i \div Limb) % Limb, i % Limb>>
Int32OfUint(u) ==
  IF u[1] >= Limb \div 2 THEN (u[1] - Limb) * Limb + u[2] ELSE u[1] * Limb + u[2]


(***************************************************************************)
(* The build and the program's state.                                      *)
(***************************************************************************)
VARIABLES
  enc,      \* the encoding the build selects: "NUNBOX32" or "PUNBOX64"
  hwNaN,    \* whether JS_NONCANONICAL_HARDWARE_NAN is defined
  debug,    \* whether DEBUG is defined (MOZ_ASSERT is compiled in)
  v,        \* a Value: its asBits_, and how the bits were made
  rhs,      \* a second Value
  crashed,  \* "" while running, else the kind of assertion that aborted
  obs       \* the last query of v and its outcome; under SpecEquiv, what
            \* the same calls gave in a build of each encoding

vars == <<enc, hwNaN, debug, v, rhs, crashed, obs>>

NUNBOX32 == enc = "NUNBOX32"
PUNBOX64 == enc = "PUNBOX64"

(***************************************************************************)
(* Enumerations and layout constants.                                      *)
(***************************************************************************)
JSVAL_INT_MIN == (-2147483647) - 1
JSVAL_INT_MAX == 2147483647
JSVAL_TAG_SHIFT == 47

JSVAL_TYPE_DOUBLE == 0
JSVAL_TYPE_INT32 == 1
JSVAL_TYPE_BOOLEAN == 2
JSVAL_TYPE_UNDEFINED == 3
JSVAL_TYPE_NULL == 4
JSVAL_TYPE_MAGIC == 5
JSVAL_TYPE_STRING == 6
JSVAL_TYPE_SYMBOL == 7
JSVAL_TYPE_PRIVATE_GCTHING == 8
JSVAL_TYPE_BIGINT == 9
JSVAL_TYPE_OBJECT == 12
JSVAL_TYPE_UNKNOWN == 32

\* a small enumerator as a JSValueTag (uint32_t)
Tag32(n) == <<0, n>>

JSVAL_TAG_CLEAR == <<\hFFFF, \hFF80>>

\* enum JSValueTag under JS_NUNBOX32
JSValueTag_NUNBOX32 ==
  [INT32 |-> Or(JSVAL_TAG_CLEAR, Tag32(JSVAL_TYPE_INT32)),
   UNDEFINED |-> Or(JSVAL_TAG_CLEAR, Tag32(JSVAL_TYPE_UNDEFINED)),
   NULL |-> Or(JSVAL_TAG_CLEAR, Tag32(JSVAL_TYPE_NULL)),
   BOOLEAN |-> Or(JSVAL_TAG_CLEAR, Tag32(JSVAL_TYPE_BOOLEAN)),
   MAGIC |-> Or(JSVAL_TAG_CLEAR, Tag32(JSVAL_TYPE_MAGIC)),
   STRING |-> Or(JSVAL_TAG_CLEAR, Tag32(JSVAL_TYPE_STRING)),
   SYMBOL |-> Or(JSVAL_TAG_CLEAR, Tag32(JSVAL_TYPE_SYMBOL)),
   PRIVATE_GCTHING |-> Or(JSVAL_TAG_CLEAR, Tag32(JSVAL_TYPE_PRIVATE_GCTHING)),
   BIGINT |-> Or(JSVAL_TAG_CLEAR, Tag32(JSVAL_TYPE_BIGINT)),
   OBJECT |-> Or(JSVAL_TAG_CLEAR, Tag32(JSVAL_TYPE_OBJECT))]

\* enum JSValueTag under JS_PUNBOX64
JSValueTag_PUNBOX64 ==
  [OBJECT |-> Tag32(0),
   PRIVATE_GCTHING |-> Tag32(1),
   STRING |-> Tag32(2),
   SYMBOL |-> Tag32(3),
   BIGINT |-> Tag32(4),
   UNDEFINED |-> Tag32(5),
   NULL |-> Tag32(6),
   BOOLEAN |-> Tag32(7),
   MAGIC |-> Tag32(8),
   INT32 |-> Tag32(9),
   MAX_NON_DOUBLE |-> Tag32(14),
   UNKNOWN |-> Tag32(15)]

\* the enumerators of the encoding the build selects
JSValueTag == IF NUNBOX32 THEN JSValueTag_NUNBOX32 ELSE JSValueTag_PUNBOX64

JSVAL_TAG_INT32 == JSValueTag.INT32
JSVAL_TAG_UNDEFINED == JSValueTag.UNDEFINED
JSVAL_TAG_NULL == JSValueTag.NULL
JSVAL_TAG_BOOLEAN == JSValueTag.BOOLEAN
JSVAL_TAG_MAGIC == JSValueTag.MAGIC
JSVAL_TAG_STRING == JSValueTag.STRING
JSVAL_TAG_SYMBOL == JSValueTag.SYMBOL
JSVAL_TAG_PRIVATE_GCTHING == JSValueTag.PRIVATE_GCTHING
JSVAL_TAG_BIGINT == JSValueTag.BIGINT
JSVAL_TAG_OBJECT == JSValueTag.OBJECT
JSVAL_TAG_UNKNOWN == JSValueTag_PUNBOX64.UNKNOWN

\* JS_PUNBOX64: the type of a tag; JSVAL_TYPE_UNKNOWN where the switch defaults
\* a variant of JSValueTagToType that takes the tag's number for the type
JSValueTagToType_tagNumber(tag) == tag[2]

JSValueTagToType(tag) ==
  CASE tag = JSValueTag_PUNBOX64.OBJECT -> JSVAL_TYPE_OBJECT
    [] tag = JSValueTag_PUNBOX64.PRIVATE_GCTHING -> JSVAL_TYPE_PRIVATE_GCTHING
    [] tag = JSValueTag_PUNBOX64.STRING -> JSVAL_TYPE_STRING
    [] tag = JSValueTag_PUNBOX64.SYMBOL -> JSVAL_TYPE_SYMBOL
    [] tag = JSValueTag_PUNBOX64.BIGINT -> JSVAL_TYPE_BIGINT
    [] tag = JSValueTag_PUNBOX64.UNDEFINED -> JSVAL_TYPE_UNDEFINED
    [] tag = JSValueTag_PUNBOX64.NULL -> JSVAL_TYPE_NULL
    [] tag = JSValueTag_PUNBOX64.BOOLEAN -> JSVAL_TYPE_BOOLEAN
    [] tag = JSValueTag_PUNBOX64.MAGIC -> JSVAL_TYPE_MAGIC
    [] tag = JSValueTag_PUNBOX64.INT32 -> JSVAL_TYPE_INT32
    [] OTHER -> JSVAL_TYPE_UNKNOWN

\* JS_NUNBOX32: JSVAL_TAG_CLEAR | type.  JS_PUNBOX64: the switch, which
\* defaults to JSVAL_TAG_UNKNOWN.
ValueTypeToTag(type) ==
  IF NUNBOX32 THEN Or(JSVAL_TAG_CLEAR, Tag32(type))
  ELSE CASE type = JSVAL_TYPE_OBJECT -> JSVAL_TAG_OBJECT
         [] type = JSVAL_TYPE_PRIVATE_GCTHING -> JSVAL_TAG_PRIVATE_GCTHING
         [] type = JSVAL_TYPE_STRING -> JSVAL_TAG_STRING
         [] type = JSVAL_TYPE_SYMBOL -> JSVAL_TAG_SYMBOL
         [] type = JSVAL_TYPE_BIGINT -> JSVAL_TAG_BIGINT
         [] type = JSVAL_TYPE_UNDEFINED -> JSVAL_TAG_UNDEFINED
         [] type = JSVAL_TYPE_NULL -> JSVAL_TAG_NULL
         [] type = JSVAL_TYPE_BOOLEAN -> JSVAL_TAG_BOOLEAN
         [] type = JSVAL_TYPE_MAGIC -> JSVAL_TAG_MAGIC
         [] type = JSVAL_TYPE_INT32 -> JSVAL_TAG_INT32
         [] OTHER -> JSVAL_TAG_UNKNOWN

\* uint64_t(tag) << JSVAL_TAG_SHIFT (JS_PUNBOX64)
ShiftedTag(tag) == Shl(Widen(tag), JSVAL_TAG_SHIFT)

JSVAL_SHIFTED_TAG_INT32 == ShiftedTag(JSValueTag_PUNBOX64.INT32)
JSVAL_SHIFTED_TAG_UNDEFINED == ShiftedTag(JSValueTag_PUNBOX64.UNDEFINED)
JSVAL_SHIFTED_TAG_NULL == ShiftedTag(JSValueTag_PUNBOX64.NULL)
JSVAL_SHIFTED_TAG_BOOLEAN == ShiftedTag(JSValueTag_PUNBOX64.BOOLEAN)
JSVAL_SHIFTED_TAG_MAGIC == ShiftedTag(JSValueTag_PUNBOX64.MAGIC)
JSVAL_SHIFTED_TAG_STRING == ShiftedTag(JSValueTag_PUNBOX64.STRING)
JSVAL_SHIFTED_TAG_SYMBOL == ShiftedTag(JSValueTag_PUNBOX64.SYMBOL)
JSVAL_SHIFTED_TAG_PRIVATE_GCTHING == ShiftedTag(JSValueTag_PUNBOX64.PRIVATE_GCTHING)
JSVAL_SHIFTED_TAG_BIGINT == ShiftedTag(JSValueTag_PUNBOX64.BIGINT)
JSVAL_SHIFTED_TAG_OBJECT == ShiftedTag(JSValueTag_PUNBOX64.OBJECT)

\* JS_NUNBOX32 thresholds
ValueUpperExclPrimitiveTag == JSVAL_TAG_OBJECT
ValueUpperInclNumberTag == JSVAL_TAG_INT32
ValueLowerInclGCThingTag == JSVAL_TAG_STRING

\* JS_PUNBOX64 masks and thresholds
ValueTagMask == <<\hFFFF, \h8000, 0, 0>>
ValueGCThingPayloadMask == <<0, \h7FFF, \hFFFF, \hFFFF>>
ValueDoubleAdjust == <<\h0007, \hFFFF, \hFFFF, \hFFFF>>
ValueBoxedMaxObjPtr == <<0, \h7FFF, \hFFFF, \hFFFF>>
ValuePrivateDoubleBit == <<\h8000, 0, 0, 0>>
ValueBoxedUndefined == JSVAL_SHIFTED_TAG_UNDEFINED
ValueBoxedMinInt32 == JSVAL_SHIFTED_TAG_INT32
ValueBoxedMinDouble == ValueDoubleAdjust

\* a variant of ValueTestIsObject with a strict comparison
ValueTestIsObject_strict(bits) == Lt(bits, ValueBoxedMaxObjPtr)
ValueTestIsObject(bits) == Le(bits, ValueBoxedMaxObjPtr)
ValueTestIsPrimitive(bits) == ~ValueTestIsObject(bits)
ValueTestIsNumber(bits) == Ge(bits, ValueBoxedMinInt32)
\* a variant of ValueTestIsDouble with a strict comparison
ValueTestIsDouble_strict(bits) == Gt(bits, ValueBoxedMinDouble)
ValueTestIsDouble(bits) == Ge(bits, ValueBoxedMinDouble)
ValueTestIsGCThing(bits) == Lt(bits, ValueBoxedUndefined)

(***************************************************************************)
(* Floating point: a double is the uint64_t of its IEEE-754 bits (1 sign   *)
(* bit, 11 exponent bits, 52 significand bits), a float the uint32_t of    *)
(* its bits (1, 8, 23).                                                    *)
(***************************************************************************)
DoubleSign(d) == d[1] \div 32768
DoubleExponent(d) == (d[1] % 32768) \div 16
DoubleSignificandIsZero(d) == d[1] % 16 = 0 /\ d[2] = 0 /\ d[3] = 0 /\ d[4] = 0

\* mozilla::IsNaN: all exponent bits set and a non-zero significand
IsNaN(d) == DoubleExponent(d) = 2047 /\ ~DoubleSignificandIsZero(d)

\* mozilla::IsNegativeZero
IsNegativeZero(d) == d = <<\h8000, 0, 0, 0>>

CanonicalizedNaNSignBit == 0
CanonicalizedNaNSignificand == <<\h0008, 0, 0, 0>>

\* mozilla::SpecificNaNBits<double, signbit, significand>::value
SpecificNaNBits(signbit, significand) ==
  Or(<<signbit * 32768 + \h7FF0, 0, 0, 0>>, significand)

CanonicalizedNaNBits ==
  SpecificNaNBits(CanonicalizedNaNSignBit, CanonicalizedNaNSignificand)

InfinitySignBit == 0
\* mozilla::InfinityBits<double, signbit>::value
InfinityBits == <<InfinitySignBit * 32768 + \h7FF0, 0, 0, 0>>

\* mozilla::SpecificNaN<double>(0, 0x8000000000000)
GenericNaN == SpecificNaNBits(CanonicalizedNaNSignBit, CanonicalizedNaNSignificand)

\* a variant of CanonicalizeNaN that returns its argument
CanonicalizeNaN_identity(d) == d
CanonicalizeNaN(d) == IF IsNaN(d) THEN GenericNaN ELSE d

RECURSIVE Log2(_)
Log2(m) == IF m < 2 THEN 0 ELSE 1 + Log2(m \div 2)

\* the double with sign s, unbiased exponent e and the significand 1.f where
\* f is the low e bits of the magnitude m, 2^e <= m < 2^(e+1), 0 <= e <= 31
DoubleOfParts(s, e, f) ==
  Or(<<s * 32768 + (1023 + e) * 16, 0, 0, 0>>, Shl(Widen(Uint32OfInt(f)), 52 - e))

\* double(i) of an int32_t i: exact
DoubleOfInt32(i) ==
  IF i = 0 THEN Zero64
  ELSE IF i = JSVAL_INT_MIN THEN <<\hC1E0, 0, 0, 0>>
  ELSE LET m == IF i < 0 THEN -i ELSE i
           e == Log2(m)
       IN  DoubleOfParts(IF i < 0 THEN 1 ELSE 0, e, m - 2^e)

\* double(u) of a uint32_t u: exact
DoubleOfUint32(u) ==
  IF u[1] < 32768 THEN DoubleOfInt32(Int32OfUint(u))
  ELSE DoubleOfParts(0, 31, (u[1] - 32768) * Limb + u[2])

\* double(f) of a float f: exact; a NaN keeps its sign and payload and is quiet
DoubleOfFloat(f) ==
  LET s == f[1] \div 32768
      e8 == (f[1] % 32768) \div 128
      frac == <<0, 0, f[1] % 128, f[2]>>
      m == (f[1] % 128) * Limb + f[2]
  IN  IF e8 = 255
        THEN Or(<<s * 32768 + \h7FF0 + (IF m = 0 THEN 0 ELSE 8), 0, 0, 0>>,
                Shl(frac, 29))
      ELSE IF e8 = 0 /\ m = 0 THEN <<s * 32768, 0, 0, 0>>
      ELSE IF e8 = 0
        THEN LET k == Log2(m)
             IN  Or(<<s * 32768 + (874 + k) * 16, 0, 0, 0>>,
                    Shl(Widen(Uint32OfInt(m - 2^k)), 52 - k))
      ELSE Or(<<s * 32768 + (e8 + 896) * 16, 0, 0, 0>>, Shl(frac, 29))

\* the top 31 bits of a double's significand, and whether the low 21 are zero
SignificandTop31(d) == (d[1] % 16) * 2^27 + d[2] * 2^11 + d[3] \div 32
SignificandLow21IsZero(d) == d[3] % 32 = 0 /\ d[4] = 0

\* mozilla::NumberEqualsInt32(d, &i): whether d == double(int32_t(d)), and
\* that int32_t
NumberEqualsInt32(d) ==
  LET E == DoubleExponent(d)
      e == E - 1023
      f == SignificandTop31(d)
  IN  IF E = 0 /\ DoubleSignificandIsZero(d) THEN [is |-> TRUE, i |-> 0]
      ELSE IF E = 2047 \/ e < 0 \/ e > 31 THEN [is |-> FALSE, i |-> 0]
      ELSE IF e = 31
        THEN [is |-> DoubleSign(d) = 1 /\ DoubleSignificandIsZero(d),
              i |-> JSVAL_INT_MIN]
      ELSE IF e = 0
        THEN [is |-> DoubleSignificandIsZero(d),
              i |-> IF DoubleSign(d) = 1 THEN -1 ELSE 1]
      ELSE [is |-> SignificandLow21IsZero(d) /\ f % 2^(31 - e) = 0,
            i |-> (IF DoubleSign(d) = 1 THEN -1 ELSE 1)
                    * (2^e + f \div 2^(31 - e))]

\* mozilla::NumberIsInt32(d, &i): negative zero is not an int32
NumberIsInt32(d) ==
  IF IsNegativeZero(d) THEN [is |-> FALSE, i |-> 0] ELSE NumberEqualsInt32(d)

\* 64-bit integers: a uint64_t is its word, an int64_t its two's complement
One64 == <<0, 0, 0, 1>>
SignBit64 == <<\h8000, 0, 0, 0>>
Neg64(t) == Sub(Zero64, t)
IsNegative64(t) == t[1] >= 32768

\* a <= b for int64_t a and b
SLe(a, b) == Le(Xor(a, SignBit64), Xor(b, SignBit64))

\* int64_t(i) of an int32_t i: sign extension
Int64OfInt32(i) ==
  LET u == Uint32OfInt(i)
      ext == IF i < 0 THEN Limb - 1 ELSE 0
  IN  <<ext, ext, u[1], u[2]>>

\* the position of the highest set bit of a non-zero word
HighBit(w) ==
  LET i == CHOOSE k \in 1..4 : w[k] # 0 /\ \A j \in 1..(k - 1) : w[j] = 0
  IN  16 * (4 - i) + Log2(w[i])

\* double(t) of a uint64_t t: the nearest double, ties to even
DoubleOfUint64(t) ==
  IF t = Zero64 THEN Zero64
  ELSE LET p == HighBit(t)
           s == p - 52
           q == IF s <= 0 THEN Shl(t, -s) ELSE Shr(t, s)
           r == IF s <= 0 THEN Zero64 ELSE Sub(t, Shl(q, s))
           half == IF s <= 0 THEN Zero64 ELSE Shl(One64, s - 1)
           up == s > 0 /\ (Gt(r, half) \/ (r = half /\ q[4] % 2 = 1))
           sig == IF up THEN Add(q, One64) ELSE q
       IN  Add(Shl(<<0, 0, 0, 1022 + p>>, 52), sig)

\* double(t) of an int64_t t
DoubleOfInt64(t) ==
  IF IsNegative64(t) THEN Or(SignBit64, DoubleOfUint64(Neg64(t)))
  ELSE DoubleOfUint64(t)

\* the unbiased exponent of a double, and its magnitude truncated to an
\* integer when that is below 2^64
ExponentOf(d) == ((d[1] % 32768) \div 16) - 1023
TruncatedMagnitude(d) ==
  LET e == ExponentOf(d)
      sig == Or(And(d, <<15, \hFFFF, \hFFFF, \hFFFF>>), <<16, 0, 0, 0>>)
  IN  IF e < 0 THEN Zero64
      ELSE IF e >= 52 THEN Shl(sig, e - 52)
      ELSE Shr(sig, 52 - e)

\* the truncated value of d is an int64_t, a uint64_t
FitsInt64(d) ==
  \/ ExponentOf(d) < 63
  \/ d = <<\hC3E0, 0, 0, 0>>
FitsUint64(d) ==
  \/ ExponentOf(d) < 0
  \/ d[1] < 32768 /\ ExponentOf(d) < 64

\* int64_t(d) and uint64_t(d) of a double d that is no NaN: the truncated
\* value where it fits the type; where it does not the conversion is undefined,
\* and gives the "integer indefinite" of cvttsd2si on x86-64 (for uint64_t
\* after the compiler's bias by 2^63) or saturates as fcvtzs/fcvtzu on AArch64
Int64OfDouble(d) ==
  IF FitsInt64(d)
    THEN {IF d[1] >= 32768 THEN Neg64(TruncatedMagnitude(d))
          ELSE TruncatedMagnitude(d)}
  ELSE {SignBit64,
        IF d[1] >= 32768 THEN SignBit64 ELSE Not(SignBit64)}
Uint64OfDouble(d) ==
  IF FitsUint64(d) THEN {TruncatedMagnitude(d)}
  ELSE {Zero64, IF d[1] >= 32768 THEN Zero64 ELSE Not(Zero64)}

(***************************************************************************)
(* union Value: the word asBits_ and what is computed from it.  A payload  *)
(* (PayloadType) is passed as a uint64_t; JS_NUNBOX32 keeps its low half.  *)
(* An address is a uint64_t, below 2^32 under JS_NUNBOX32.                 *)
(***************************************************************************)
\* a variant of bitsFromDouble that leaves out the JS_PUNBOX64 offset
bitsFromDouble_unadjusted(d) == IF hwNaN THEN CanonicalizeNaN(d) ELSE d
bitsFromDouble(d) ==
  LET c == IF hwNaN THEN CanonicalizeNaN(d) ELSE d
  IN  IF NUNBOX32 THEN c ELSE Add(c, ValueDoubleAdjust)

bitsFromTagAndPayload(tag, payload) ==
  IF NUNBOX32 THEN Or(Shl(Widen(tag), 32), Widen(Narrow(payload)))
  ELSE Or(Shl(Widen(tag), JSVAL_TAG_SHIFT), payload)

fromRawBits(asBits) == asBits
fromTagAndPayload(tag, payload) == fromRawBits(bitsFromTagAndPayload(tag, payload))
fromInt32(i) == fromTagAndPayload(JSVAL_TAG_INT32, Widen(Uint32OfInt(i)))
fromDouble(d) == fromRawBits(bitsFromDouble(d))

\* Value(): the undefined Value
ValueDefault == bitsFromTagAndPayload(JSVAL_TAG_UNDEFINED, Zero64)

toTag(bits) ==
  IF NUNBOX32 THEN <<bits[1], bits[2]>> ELSE Narrow(Shr(bits, JSVAL_TAG_SHIFT))

\* s_.payload_: the low 32 bits in both encodings
payload32(bits) == Narrow(bits)

(*** Value type queries ***)
isUndefined(bits) ==
  IF NUNBOX32 THEN toTag(bits) = JSVAL_TAG_UNDEFINED
  ELSE bits = JSVAL_SHIFTED_TAG_UNDEFINED

isNull(bits) ==
  IF NUNBOX32 THEN toTag(bits) = JSVAL_TAG_NULL ELSE bits = JSVAL_SHIFTED_TAG_NULL

isNullOrUndefined(bits) == isNull(bits) \/ isUndefined(bits)

\* a variant of isInt32 that takes every number that is no double for an int32
isInt32_numberNotDouble(bits) ==
  IF NUNBOX32 THEN toTag(bits) = JSVAL_TAG_INT32
  ELSE ValueTestIsNumber(bits) /\ ~ValueTestIsDouble(bits)

isInt32(bits) == toTag(bits) = JSVAL_TAG_INT32

\* a variant of isDouble with the test of isNumber
isDouble_asNumber(bits) ==
  IF NUNBOX32 THEN Le(toTag(bits), ValueUpperInclNumberTag)
  ELSE ValueTestIsNumber(bits)
isDouble(bits) ==
  IF NUNBOX32 THEN Le(toTag(bits), JSVAL_TAG_CLEAR) ELSE ValueTestIsDouble(bits)

\* the assertion of isNumber under JS_NUNBOX32
isNumber_assert(bits) == NUNBOX32 => toTag(bits) # JSVAL_TAG_CLEAR

\* a variant of isNumber with the boundary of isDouble
isNumber_asDouble(bits) ==
  IF NUNBOX32 THEN Le(toTag(bits), JSVAL_TAG_CLEAR) ELSE ValueTestIsDouble(bits)

isNumber(bits) ==
  IF NUNBOX32 THEN Le(toTag(bits), ValueUpperInclNumberTag)
  ELSE ValueTestIsNumber(bits)

isString(bits) == toTag(bits) = JSVAL_TAG_STRING
isSymbol(bits) == toTag(bits) = JSVAL_TAG_SYMBOL
isBigInt(bits) == toTag(bits) = JSVAL_TAG_BIGINT

isObject(bits) ==
  IF NUNBOX32 THEN toTag(bits) = JSVAL_TAG_OBJECT ELSE ValueTestIsObject(bits)

isPrimitive(bits) ==
  IF NUNBOX32 THEN Lt(toTag(bits), ValueUpperExclPrimitiveTag)
  ELSE ValueTestIsPrimitive(bits)

isObjectOrNull(bits) == isObject(bits) \/ isNull(bits)

\* a variant of isGCThing with its thresholds off by one comparison
isGCThing_offByOne(bits) ==
  IF NUNBOX32 THEN Gt(toTag(bits), ValueLowerInclGCThingTag)
  ELSE Le(bits, ValueBoxedUndefined)
isGCThing(bits) ==
  IF NUNBOX32 THEN Ge(toTag(bits), ValueLowerInclGCThingTag)
  ELSE ValueTestIsGCThing(bits)

isBoolean(bits) == toTag(bits) = JSVAL_TAG_BOOLEAN
isMagic(bits) == toTag(bits) = JSVAL_TAG_MAGIC
isPrivateGCThing(bits) == toTag(bits) = JSVAL_TAG_PRIVATE_GCTHING

(*** Extractors: what the function returns, whatever its assertion says ***)
toInt32(bits) == Int32OfUint(payload32(bits))

\* a variant of toDouble that returns the word as it is in both encodings
toDouble_wholeWord(bits) == bits

toDouble(bits) == IF NUNBOX32 THEN bits ELSE Sub(bits, ValueDoubleAdjust)

toNumber(bits) ==
  IF isDouble(bits) THEN toDouble(bits) ELSE DoubleOfInt32(toInt32(bits))

\* a variant of toString that masks the tag away instead of XORing it
toString_masked(bits) ==
  IF NUNBOX32 THEN Widen(payload32(bits)) ELSE And(bits, ValueGCThingPayloadMask)
toString(bits) ==
  IF NUNBOX32 THEN Widen(payload32(bits)) ELSE Xor(bits, JSVAL_SHIFTED_TAG_STRING)

toSymbol(bits) ==
  IF NUNBOX32 THEN Widen(payload32(bits)) ELSE Xor(bits, JSVAL_SHIFTED_TAG_SYMBOL)

toBigInt(bits) ==
  IF NUNBOX32 THEN Widen(payload32(bits)) ELSE Xor(bits, JSVAL_SHIFTED_TAG_BIGINT)

toObject(bits) == IF NUNBOX32 THEN Widen(payload32(bits)) ELSE bits

\* a variant of toObjectOrNull that leaves the null tag in place
toObjectOrNull_asObject(bits) == IF NUNBOX32 THEN Widen(payload32(bits)) ELSE bits

toObjectOrNull(bits) ==
  IF NUNBOX32 THEN Widen(payload32(bits))
  ELSE And(bits, Not(JSVAL_SHIFTED_TAG_NULL))

\* a variant of toGCThing that leaves the tag in place
toGCThing_unmasked(bits) == IF NUNBOX32 THEN Widen(payload32(bits)) ELSE bits

toGCThing(bits) ==
  IF NUNBOX32 THEN Widen(payload32(bits)) ELSE And(bits, ValueGCThingPayloadMask)

toBoolean(bits) ==
  IF NUNBOX32 THEN payload32(bits) # Zero32 ELSE bits[4] % 2 = 1

\* a variant of whyMagic that forgets the payload
whyMagic_forgetful(bits) == 0

whyMagic(bits) == Int32OfUint(payload32(bits))
magicUint32(bits) == payload32(bits)

\* a variant of toPrivate that clears the private bit instead of shifting
toPrivate_masked(bits) ==
  IF NUNBOX32 THEN Widen(payload32(bits)) ELSE And(bits, Not(ValuePrivateDoubleBit))

toPrivate(bits) == IF NUNBOX32 THEN Widen(payload32(bits)) ELSE Shl(bits, 1)
toPrivateUint32(bits) == Uint32OfInt(toInt32(bits))

asRawBits(bits) == bits

\* a variant of SameType that takes any two numbers for the same type
SameType_anyNumbers(lhsBits, rhsBits) ==
  (isNumber(lhsBits) /\ isNumber(rhsBits)) \/ toTag(lhsBits) = toTag(rhsBits)

extractNonDoubleType_lowBits(bits) == toTag(bits)[2] % 16

\* Value::extractNonDoubleType and Value::type, with their assertions
extractNonDoubleType(bits) ==
  IF NUNBOX32 THEN toTag(bits)[2] % 16 ELSE JSValueTagToType(toTag(bits))

extractNonDoubleType_assert(bits) == extractNonDoubleType(bits) > JSVAL_TYPE_DOUBLE

\* a variant of type that reports every number as a double
type_numbersAsDouble(bits) ==
  IF isNumber(bits) THEN JSVAL_TYPE_DOUBLE ELSE extractNonDoubleType(bits)

type(bits) ==
  IF isDouble(bits) THEN JSVAL_TYPE_DOUBLE ELSE extractNonDoubleType(bits)

type_assert(bits) ==
  isDouble(bits) \/ (/\ extractNonDoubleType_assert(bits)
                     /\ extractNonDoubleType(bits) <= JSVAL_TYPE_OBJECT)

\* JS::SameType(lhs, rhs)
SameType(lhsBits, rhsBits) ==
  IF NUNBOX32
    THEN LET ltag == toTag(lhsBits)
             rtag == toTag(rhsBits)
         IN  ltag = rtag \/ (Lt(ltag, JSVAL_TAG_CLEAR) /\ Lt(rtag, JSVAL_TAG_CLEAR))
  ELSE (isDouble(lhsBits) /\ isDouble(rhsBits))
         \/ And(Xor(lhsBits, rhsBits), <<\hFFFF, \h8000, 0, 0>>) = Zero64

(*** The assertions of the extractors the mutators call ***)
\* the low three bits of a word are zero: (bits & 0x7) == 0
LowBitsClear(bits) == bits[Len(bits)] % 8 = 0

toDouble_assert(bits) == isDouble(bits)
toNumber_assert(bits) ==
  /\ isNumber_assert(bits)
  /\ isNumber(bits)
  /\ IF isDouble(bits) THEN toDouble_assert(bits) ELSE isInt32(bits)
toObjectOrNull_assert(bits) ==
  isObjectOrNull(bits) /\ (PUNBOX64 => LowBitsClear(toObjectOrNull(bits)))
toGCThing_assert(bits) ==
  isGCThing(bits) /\ (PUNBOX64 => LowBitsClear(toGCThing(bits)))
traceKind_assert(bits) ==
  isGCThing(bits) /\ (isPrivateGCThing(bits) => toGCThing_assert(bits))
toString_assert(bits) == isString(bits)
toSymbol_assert(bits) == isSymbol(bits)
toBigInt_assert(bits) == isBigInt(bits)
toObject_assert(bits) == isObject(bits) /\ (PUNBOX64 => LowBitsClear(bits))
toInt32_assert(bits) == isInt32(bits)
toBoolean_assert(bits) == isBoolean(bits)
whyMagic_assert(bits) == isMagic(bits)
magicUint32_assert(bits) == isMagic(bits)

(***************************************************************************)
(* The collector's capabilities the assertions call.                       *)
(***************************************************************************)
CellAlignBytes == 8

\* js::gc::IsCellPointerValid: a non-null, cell-aligned address
IsCellPointerValid(cell) == cell # Zero64 /\ cell[4] % CellAlignBytes = 0

\* JS::TraceKind of a cell, as JS::GCThingTraceKind(cell) reports it
TraceKinds == {"Object", "BigInt", "String", "Symbol", "Shape"}

(***************************************************************************)
(* Mutators.  Each gives the word it stores in asBits_, whether the        *)
(* assertions before the store hold (pre), whether those after it hold     *)
(* (post), and what it returns (ret; FALSE for a void mutator).            *)
(***************************************************************************)
Out(bits, pre, post, ret) == [bits |-> bits, pre |-> pre, post |-> post, ret |-> ret]

setNull ==
  LET b == bitsFromTagAndPayload(JSVAL_TAG_NULL, Zero64)
  IN  Out(b, TRUE, isNull(b), FALSE)

setUndefined ==
  LET b == bitsFromTagAndPayload(JSVAL_TAG_UNDEFINED, Zero64)
  IN  Out(b, TRUE, isUndefined(b), FALSE)

setInt32(i) ==
  LET b == bitsFromTagAndPayload(JSVAL_TAG_INT32, Widen(Uint32OfInt(i)))
  IN  Out(b, TRUE, toInt32_assert(b) /\ toInt32(b) = i, FALSE)

\* a variant of setDouble that canonicalizes in every build
setDouble_canonicalizing(d) ==
  LET b == bitsFromDouble(CanonicalizeNaN(d))
  IN  Out(b, TRUE, isDouble(b), FALSE)

setDouble(d) ==
  LET b == bitsFromDouble(d)
  IN  Out(b, TRUE, isDouble(b), FALSE)

setString(str) ==
  LET b == bitsFromTagAndPayload(JSVAL_TAG_STRING, str)
  IN  Out(b, IsCellPointerValid(str), toString_assert(b) /\ toString(b) = str, FALSE)

setSymbol(sym) ==
  LET b == bitsFromTagAndPayload(JSVAL_TAG_SYMBOL, sym)
  IN  Out(b, IsCellPointerValid(sym), toSymbol_assert(b) /\ toSymbol(b) = sym, FALSE)

setBigInt(bi) ==
  LET b == bitsFromTagAndPayload(JSVAL_TAG_BIGINT, bi)
  IN  Out(b, IsCellPointerValid(bi), toBigInt_assert(b) /\ toBigInt(b) = bi, FALSE)

setObjectNoCheck(obj) ==
  IF NUNBOX32 THEN Out(bitsFromTagAndPayload(JSVAL_TAG_OBJECT, obj), TRUE, TRUE, FALSE)
  ELSE Out(obj, TRUE, Shr(obj, JSVAL_TAG_SHIFT) = Zero64, FALSE)

setObject(obj) ==
  LET o == setObjectNoCheck(obj)
  IN  Out(o.bits, IsCellPointerValid(obj),
          o.post /\ toObject_assert(o.bits) /\ toObject(o.bits) = obj, FALSE)

setBoolean(b) ==
  LET w == bitsFromTagAndPayload(JSVAL_TAG_BOOLEAN, <<0, 0, 0, IF b THEN 1 ELSE 0>>)
  IN  Out(w, TRUE, toBoolean_assert(w) /\ toBoolean(w) = b, FALSE)

setMagic(why) ==
  LET b == bitsFromTagAndPayload(JSVAL_TAG_MAGIC, Widen(Uint32OfInt(why)))
  IN  Out(b, TRUE, whyMagic_assert(b) /\ whyMagic(b) = why, FALSE)

setMagicUint32(payload) ==
  LET b == bitsFromTagAndPayload(JSVAL_TAG_MAGIC, Widen(payload))
  IN  Out(b, TRUE, magicUint32_assert(b) /\ magicUint32(b) = payload, FALSE)

\* bool setNumber(uint32_t ui)
setNumber_uint32(ui) ==
  IF Gt(ui, Uint32OfInt(JSVAL_INT_MAX))
    THEN [setDouble(DoubleOfUint32(ui)) EXCEPT !.ret = FALSE]
    ELSE [setInt32(Int32OfUint(ui)) EXCEPT !.ret = TRUE]

\* a variant of setNumber(double) that never chooses the int32
setNumber_double_alwaysDouble(d) == [setDouble(d) EXCEPT !.ret = FALSE]

\* bool setNumber(double d)
setNumber_double(d) ==
  LET n == NumberIsInt32(d)
  IN  IF n.is THEN [setInt32(n.i) EXCEPT !.ret = TRUE]
      ELSE [setDouble(d) EXCEPT !.ret = FALSE]

setObjectOrNull(arg) == IF arg # Zero64 THEN setObject(arg) ELSE setNull

\* a variant of setPrivate that leaves out the JS_PUNBOX64 top bit
setPrivate_unflagged(bits, ptr) ==
  LET b == IF NUNBOX32 THEN <<0, 0, ptr[3], ptr[4]>> ELSE Shr(ptr, 1)
  IN  Out(b, ptr[4] % 2 = 0, isDouble(b), FALSE)

\* JS_NUNBOX32 writes the two halves of the word in turn
setPrivate(bits, ptr) ==
  LET b == IF NUNBOX32
             THEN LET t == <<0, 0, bits[3], bits[4]>> IN <<t[1], t[2], ptr[3], ptr[4]>>
             ELSE Or(Shr(ptr, 1), ValuePrivateDoubleBit)
  IN  Out(b, ptr[4] % 2 = 0, isDouble(b), FALSE)

\* a variant of setPrivateUint32 that stores the number as a double
setPrivateUint32_asDouble(ui) ==
  LET o == setDouble(DoubleOfUint32(ui))
  IN  Out(o.bits, Uint32OfInt(Int32OfUint(ui)) = ui, o.post, FALSE)

setPrivateUint32(ui) ==
  LET o == setInt32(Int32OfUint(ui))
  IN  Out(o.bits, Uint32OfInt(Int32OfUint(ui)) = ui, o.post, FALSE)

\* a variant of setPrivateGCThing that lets an object through
setPrivateGCThing_objectsAllowed(cell, kind) ==
  Out(bitsFromTagAndPayload(JSVAL_TAG_PRIVATE_GCTHING, cell),
      /\ kind # "String"
      /\ kind # "Symbol"
      /\ kind # "BigInt"
      /\ IsCellPointerValid(cell)
      /\ (PUNBOX64 => Shr(cell, JSVAL_TAG_SHIFT) = Zero64),
      TRUE, FALSE)

setPrivateGCThing(cell, kind) ==
  Out(bitsFromTagAndPayload(JSVAL_TAG_PRIVATE_GCTHING, cell),
      /\ kind # "String"
      /\ kind # "Symbol"
      /\ kind # "BigInt"
      /\ kind # "Object"
      /\ IsCellPointerValid(cell)
      /\ (PUNBOX64 => Shr(cell, JSVAL_TAG_SHIFT) = Zero64),
      TRUE, FALSE)

\* Value::isNumberRepresentable<T>, T(double(t)) == t, for T = int64_t and
\* T = uint64_t: the results the build can give
isNumberRepresentable_int64(t) == {back = t : back \in Int64OfDouble(DoubleOfInt64(t))}
isNumberRepresentable_uint64(t) ==
  {back = t : back \in Uint64OfDouble(DoubleOfUint64(t))}

\* detail::MakeNumberValue<true>::create(t) for an int64_t t
MakeNumberValue_signed(t) ==
  IF SLe(Int64OfInt32(JSVAL_INT_MIN), t) /\ SLe(t, Int64OfInt32(JSVAL_INT_MAX))
    THEN setInt32(Int32OfUint(Narrow(t)))
  ELSE setDouble(DoubleOfInt64(t))

\* detail::MakeNumberValue<false>::create(t) for a uint64_t t
MakeNumberValue_unsigned(t) ==
  IF Le(t, Int64OfInt32(JSVAL_INT_MAX))
    THEN setInt32(Int32OfUint(Narrow(t)))
  ELSE setDouble(DoubleOfUint64(t))

(***************************************************************************)
(* Inputs.                                                                 *)
(***************************************************************************)
Int32Inputs == (-MaxSmallInt .. MaxSmallInt) \cup {5, JSVAL_INT_MAX, JSVAL_INT_MIN}

Uint32Inputs ==
  {<<0, 0>>, <<0, 5>>, <<\h7FFF, \hFFFF>>, <<\h8000, 0>>, <<\hFFFF, \hFFFF>>}

NegativeZero == <<\h8000, 0, 0, 0>>
NegativeInfinity == <<\hFFF0, 0, 0, 0>>

\* non-NaN doubles: the int32 inputs, -0.0, 1.5, 2^31, -2^31 - 1, the infinities
FiniteDoubleInputs ==
  {DoubleOfInt32(i) : i \in Int32Inputs}
    \cup {NegativeZero, <<\h3FF8, 0, 0, 0>>, <<\h41E0, 0, 0, 0>>,
          <<\hC1E0, 0, \h0020, 0>>, InfinityBits, NegativeInfinity}

\* NaNs: the canonical one, its negative, and ones with a payload; the last
\* three have the high word of a JS_NUNBOX32 tag
NaNInputs ==
  {CanonicalizedNaNBits, <<\hFFF8, 0, 0, 0>>, <<\h7FF8, 0, 0, 1>>,
   <<\h7FF0, 0, 0, 1>>, <<\hFFF8, 0, 0, 1>>, <<\hFFFF, \hFFFF, \hFFFF, \hFFFF>>,
   <<\hFFFF, \hFF80, 0, 0>>, <<\hFFFF, \hFF81, 0, 5>>, <<\hFFFF, \hFF8A, 0, 0>>}

DoubleInputs == FiniteDoubleInputs \cup NaNInputs

\* floats: 1.5f, the canonical NaN, a NaN with a payload, the least denormal
FloatInputs == {<<\h3FC0, 0>>, <<\h7FC0, 0>>, <<\h7FC0, 1>>, <<0, 1>>}

\* addresses: cells above the first megabyte, the highest aligned addresses
\* of 32 and of 47 bits, one beyond 47 bits, a misaligned one, and null
CellInputs ==
  {<<0, 0, 16, 8 * k>> : k \in 1..MaxCells}
    \cup {<<0, 0, \hFFFF, \hFFF8>>, <<0, \h7FFF, \hFFFF, \hFFF8>>,
          <<0, \h8000, 0, 8>>, <<0, 0, 16, 4>>, Zero64}

\* void* inputs: even ones, an odd one, and null
PrivateInputs ==
  {<<0, 0, 16, 2 * k>> : k \in 1..MaxCells}
    \cup {<<0, 0, \hFFFF, \hFFFE>>, <<\hFFFF, \hFFFF, \hFFFF, \hFFFE>>,
          <<\h000F, \hFFFF, \hFFFF, \hFFFC>>, <<\h000F, \hFFFF, \hFFFF, \hFFFE>>,
          <<0, 0, 0, 3>>, Zero64}

\* JSWhyMagic: JS_ELEMENTS_HOLE, JS_OPTIMIZED_OUT, JS_GENERIC_MAGIC
WhyInputs == {0, 10, 14}

\* raw words around the thresholds of the two encodings
\* int64_t inputs: 0, 5, -1, the int32 bounds and their neighbours, 2^53,
\* 2^53 + 1 and its negative, 2^63 - 1024, 2^63 - 512, the int64 bounds
Int64Inputs ==
  {Zero64, <<0, 0, 0, 5>>, <<\hFFFF, \hFFFF, \hFFFF, \hFFFF>>,
   <<0, 0, \h7FFF, \hFFFF>>, <<0, 0, \h8000, 0>>,
   <<\hFFFF, \hFFFF, \h8000, 0>>, <<\hFFFF, \hFFFF, \h7FFF, \hFFFF>>,
   <<\h0020, 0, 0, 0>>, <<\h0020, 0, 0, 1>>, <<\hFFDF, \hFFFF, \hFFFF, \hFFFF>>,
   <<\h7FFF, \hFFFF, \hFFFF, \hFC00>>, <<\h7FFF, \hFFFF, \hFFFF, \hFE00>>,
   <<\h7FFF, \hFFFF, \hFFFF, \hFFFF>>, <<\h8000, 0, 0, 0>>}

\* uint64_t inputs: 0, 5, 2^31 - 1, 2^31, 2^53 + 1, 2^53 + 2, 2^63,
\* 2^64 - 2048, 2^64 - 1024, 2^64 - 1
Uint64Inputs ==
  {Zero64, <<0, 0, 0, 5>>, <<0, 0, \h7FFF, \hFFFF>>, <<0, 0, \h8000, 0>>,
   <<\h0020, 0, 0, 1>>, <<\h0020, 0, 0, 2>>, <<\h8000, 0, 0, 0>>,
   <<\hFFFF, \hFFFF, \hFFFF, \hF800>>, <<\hFFFF, \hFFFF, \hFFFF, \hFC00>>,
   <<\hFFFF, \hFFFF, \hFFFF, \hFFFF>>}

RawInputs ==
  {Zero64, <<0, \h7FFF, \hFFFF, \hFFFF>>, <<0, \h8000, 0, 0>>,
   <<\h0002, \h8000, 0, 1>>, <<\h0003, 0, 0, 1>>, <<\h0005, 0, 0, 0>>,
   <<\h0007, \hFFFF, \hFFFF, \hFFFE>>, <<\h0007, \hFFFF, \hFFFF, \hFFFF>>,
   <<\hFFFF, \hFF7F, \hFFFF, \hFFFF>>, <<\hFFFF, \hFF80, 0, 1>>,
   <<\hFFFF, \hFF8D, 0, 0>>, <<\hFFFF, \hFFFF, 0, 0>>,
   <<\h0004, \hFFFF, \hFFFF, \hFFFF>>, <<\hFFFF, \hFF8A, 0, 0>>}

\* an address the build's pointers can hold
FitsPointer(p) == NUNBOX32 => (p[1] = 0 /\ p[2] = 0)

Inputs ==
  [int32 |-> Int32Inputs, uint32 |-> Uint32Inputs, double |-> DoubleInputs,
   float |-> FloatInputs, cell |-> CellInputs, private |-> PrivateInputs,
   why |-> WhyInputs, kind |-> TraceKinds, raw |-> RawInputs,
   int64 |-> Int64Inputs, uint64 |-> Uint64Inputs]

\* the inputs of the two-Value specification: a few of each
PairInputs ==
  [int32 |-> {-1, 5},
   uint32 |-> {<<\hFFFF, \hFFFF>>},
   double |-> {<<\h3FF8, 0, 0, 0>>, CanonicalizedNaNBits,
               <<\hFFFF, \hFF80, 0, 0>>},
   float |-> {<<\h3FC0, 0>>},
   cell |-> {<<0, 0, 16, 8 * MaxCells>>, <<0, 0, 16, 4>>},
   private |-> {<<0, 0, 16, 2 * MaxCells>>},
   why |-> {10},
   kind |-> {"String"},
   raw |-> {<<\hFFFF, \hFF8D, 0, 0>>},
   int64 |-> {<<\h7FFF, \hFFFF, \hFFFF, \hFFFF>>},
   uint64 |-> {<<0, 0, 0, 5>>}]

(***************************************************************************)
(* The state machine.  A Value is its word and how the word was made: the  *)
(* operation, its argument, whether every assertion of the operation held, *)
(* and what the operation returned.                                        *)
(***************************************************************************)
Slot(bits, op, arg, ok, ret) ==
  [bits |-> bits, op |-> op, arg |-> arg, ok |-> ok, ret |-> ret]

\* obs while nothing has been asked of v since it was stored
NoQuery ==
  [synced |-> FALSE, query |-> "", why |-> 0, ok |-> TRUE, returned |-> FALSE,
   ret |-> FALSE]

Init ==
  /\ enc \in {"NUNBOX32", "PUNBOX64"}
  /\ hwNaN \in BOOLEAN
  /\ debug \in BOOLEAN
  /\ v = Slot(ValueDefault, "Value", Zero64, TRUE, FALSE)
  /\ rhs = Slot(ValueDefault, "Value", Zero64, TRUE, FALSE)
  /\ crashed = ""
  /\ obs = NoQuery

\* v.op(arg) with outcome out: a failed MOZ_ASSERT aborts a DEBUG build, before
\* the store when the assertion precedes it; any other build stores the word
Apply(op, arg, out) ==
  /\ crashed = ""
  /\ IF debug /\ ~out.pre
       THEN crashed' = "MOZ_ASSERT" /\ v' = v
     ELSE IF debug /\ ~out.post
       THEN crashed' = "MOZ_ASSERT" /\ v' = Slot(out.bits, op, arg, FALSE, out.ret)
     ELSE crashed' = crashed
          /\ v' = Slot(out.bits, op, arg, out.pre /\ out.post, out.ret)
  /\ obs' = NoQuery
  /\ UNCHANGED <<enc, hwNaN, debug, rhs>>

\* a factory without assertions
Make(op, arg, bits) == Apply(op, arg, Out(bits, TRUE, TRUE, FALSE))

\* The mutators of v.  A factory XValue(arg) that is "Value v; v.setX(arg);
\* return v;" is the mutator applied to the default Value.
Value_setNull == Apply("setNull", Zero64, setNull)
Value_setUndefined == Apply("setUndefined", Zero64, setUndefined)
Value_setInt32(i) == Apply("setInt32", i, setInt32(i))
Value_setDouble(d) == Apply("setDouble", d, setDouble(d))
Value_setString(str) == FitsPointer(str) /\ Apply("setString", str, setString(str))
Value_setSymbol(sym) == FitsPointer(sym) /\ Apply("setSymbol", sym, setSymbol(sym))
Value_setBigInt(bi) == FitsPointer(bi) /\ Apply("setBigInt", bi, setBigInt(bi))
Value_setObject(obj) == FitsPointer(obj) /\ Apply("setObject", obj, setObject(obj))
Value_setBoolean(b) == Apply("setBoolean", b, setBoolean(b))
Value_setMagic(why) == Apply("setMagic", why, setMagic(why))
Value_setMagicUint32(payload) ==
  Apply("setMagicUint32", payload, setMagicUint32(payload))
Value_setNumber_uint32(ui) == Apply("setNumber_uint32", ui, setNumber_uint32(ui))
Value_setNumber_double(d) == Apply("setNumber_double", d, setNumber_double(d))
Value_setObjectOrNull(arg) ==
  FitsPointer(arg) /\ Apply("setObjectOrNull", arg, setObjectOrNull(arg))
Value_setPrivate(ptr) ==
  FitsPointer(ptr) /\ Apply("setPrivate", ptr, setPrivate(v.bits, ptr))
Value_setPrivateUint32(ui) == Apply("setPrivateUint32", ui, setPrivateUint32(ui))
Value_setPrivateGCThing(cell, kind) ==
  /\ FitsPointer(cell)
  /\ Apply("setPrivateGCThing", [cell |-> cell, kind |-> kind],
           setPrivateGCThing(cell, kind))

\* a variant of swap without the temporary
swap_overwriting(lhsSlot, rhsSlot) == <<rhsSlot, rhsSlot>>

\* void swap(Value& rhs): what *this and rhs hold afterwards
swap(lhsSlot, rhsSlot) == <<rhsSlot, lhsSlot>>

\* v.swap(rhs).  obs keeps the two words as they were before the call and,
\* when the step before was a swap too, as they were before that one.
Value_swap ==
  /\ crashed = ""
  /\ v' = swap(v, rhs)[1]
  /\ rhs' = swap(v, rhs)[2]
  /\ obs' = [NoQuery EXCEPT
               !.query = "swap",
               !.ret = [before |-> <<v.bits, rhs.bits>>,
                        earlier |-> IF obs.query = "swap" THEN obs.ret.before
                                    ELSE <<>>]]
  /\ UNCHANGED <<enc, hwNaN, debug, crashed>>

\* The factories with code of their own.
Value_fromRawBits(asBits) == Make("fromRawBits", asBits, fromRawBits(asBits))
UndefinedValue == Make("Value", Zero64, ValueDefault)
Int32Value(i32) == Make("Int32Value", i32, fromInt32(i32))
CanonicalizedDoubleValue(d) ==
  Make("CanonicalizedDoubleValue", d, fromDouble(CanonicalizeNaN(d)))
NaNValueRawBits ==
  IF PUNBOX64 THEN Add(CanonicalizedNaNBits, ValueDoubleAdjust)
  ELSE CanonicalizedNaNBits
NaNValue == Make("NaNValue", Zero64, fromRawBits(NaNValueRawBits))
InfinityValue ==
  Make("InfinityValue", Zero64,
       fromRawBits(IF PUNBOX64 THEN Add(InfinityBits, ValueDoubleAdjust)
                   ELSE InfinityBits))
Float32Value(f) == Apply("Float32Value", f, setDouble(DoubleOfFloat(f)))
NumberValue_float(f) ==
  Apply("NumberValue_float", f, setNumber_double(DoubleOfFloat(f)))
NumberValue_uint32(i) ==
  Make("NumberValue_uint32", i,
       IF Le(i, Uint32OfInt(JSVAL_INT_MAX)) THEN fromInt32(Int32OfUint(i))
       ELSE fromDouble(DoubleOfUint32(i)))

\* NumberValue<T>(t) for T = int64_t and T = uint64_t
NumberValue_int64(t) ==
  \E representable \in isNumberRepresentable_int64(t) :
    LET o == MakeNumberValue_signed(t)
    IN  Apply("NumberValue_int64", t, [o EXCEPT !.pre = representable /\ o.pre])
NumberValue_uint64(t) ==
  \E representable \in isNumberRepresentable_uint64(t) :
    LET o == MakeNumberValue_unsigned(t)
    IN  Apply("NumberValue_uint64", t, [o EXCEPT !.pre = representable /\ o.pre])

\* every operation on v, with its inputs drawn from the sets of S
Operations(S) ==
  \/ Value_setNull
  \/ Value_setUndefined
  \/ \E i \in S.int32 : Value_setInt32(i)
  \/ \E d \in S.double : Value_setDouble(d)
  \/ \E p \in S.cell : Value_setString(p)
  \/ \E p \in S.cell : Value_setSymbol(p)
  \/ \E p \in S.cell : Value_setBigInt(p)
  \/ \E p \in S.cell : Value_setObject(p)
  \/ \E b \in BOOLEAN : Value_setBoolean(b)
  \/ \E w \in S.why : Value_setMagic(w)
  \/ \E u \in S.uint32 : Value_setMagicUint32(u)
  \/ \E u \in S.uint32 : Value_setNumber_uint32(u)
  \/ \E d \in S.double : Value_setNumber_double(d)
  \/ \E p \in S.cell : Value_setObjectOrNull(p)
  \/ \E p \in S.private : Value_setPrivate(p)
  \/ \E u \in S.uint32 : Value_setPrivateUint32(u)
  \/ \E p \in S.cell, k \in S.kind : Value_setPrivateGCThing(p, k)
  \/ \E w \in S.raw : Value_fromRawBits(w)
  \/ UndefinedValue
  \/ \E i \in S.int32 : Int32Value(i)
  \/ \E d \in S.double : CanonicalizedDoubleValue(d)
  \/ NaNValue
  \/ InfinityValue
  \/ \E f \in S.float : Float32Value(f)
  \/ \E f \in S.float : NumberValue_float(f)
  \/ \E u \in S.uint32 : NumberValue_uint32(u)
  \/ \E t \in S.int64 : NumberValue_int64(t)
  \/ \E t \in S.uint64 : NumberValue_uint64(t)

\* one Value, every operation, all the inputs
Next == Operations(Inputs)
Spec == Init /\ [][Next]_vars

\* two Values, every operation and swap, a few inputs of each kind
NextPair == Operations(PairInputs) \/ Value_swap
SpecPair == Init /\ [][NextPair]_vars

\* a variant of traceKind without the test for a BigInt
traceKind_tagOnly(bits, cellKind) ==
  IF isPrivateGCThing(bits) THEN cellKind
  ELSE CASE toTag(bits)[2] % 4 = 0 -> "Object"
         [] toTag(bits)[2] % 4 = 1 -> "BigInt"
         [] toTag(bits)[2] % 4 = 2 -> "String"
         [] toTag(bits)[2] % 4 = 3 -> "Symbol"

\* JS::TraceKind traceKind() const, where cellKind is what
\* JS::GCThingTraceKind reports of the cell toGCThing() points to; JS::TraceKind
\* numbers Object 0, BigInt 1, String 2, Symbol 3
traceKind(bits, cellKind) ==
  IF isPrivateGCThing(bits) THEN cellKind
  ELSE IF isBigInt(bits) THEN "BigInt"
  ELSE CASE toTag(bits)[2] % 4 = 0 -> "Object"
         [] toTag(bits)[2] % 4 = 1 -> "BigInt"
         [] toTag(bits)[2] % 4 = 2 -> "String"
         [] toTag(bits)[2] % 4 = 3 -> "Symbol"

\* BarrierMethods<JS::Value>::asGCThingOrNull(v)
asGCThingOrNull(bits) == IF isGCThing(bits) THEN toGCThing(bits) ELSE Zero64

(***************************************************************************)
(* Queries of v.  A query leaves the Value alone; obs keeps what was asked, *)
(* whether its assertion held, whether it returned and, for isMagic(why),   *)
(* what it returned.                                                        *)
(***************************************************************************)
Extractors ==
  {"toInt32", "toDouble", "toNumber", "toString", "toSymbol", "toBigInt",
   "toObject", "toObjectOrNull", "toGCThing", "traceKind", "toBoolean",
   "whyMagic", "magicUint32"}

\* every assertion the extractor reaches holds
AssertOf(name, bits) ==
  CASE name = "toInt32" -> toInt32_assert(bits)
    [] name = "toDouble" -> toDouble_assert(bits)
    [] name = "toNumber" -> toNumber_assert(bits)
    [] name = "toString" -> toString_assert(bits)
    [] name = "toSymbol" -> toSymbol_assert(bits)
    [] name = "toBigInt" -> toBigInt_assert(bits)
    [] name = "toObject" -> toObject_assert(bits)
    [] name = "toObjectOrNull" -> toObjectOrNull_assert(bits)
    [] name = "toGCThing" -> toGCThing_assert(bits)
    [] name = "traceKind" -> traceKind_assert(bits)
    [] name = "toBoolean" -> toBoolean_assert(bits)
    [] name = "whyMagic" -> whyMagic_assert(bits)
    [] name = "magicUint32" -> magicUint32_assert(bits)

\* MOZ_RELEASE_ASSERT aborts every build, MOZ_ASSERT a DEBUG build
Query(name, why, ok, release, ret) ==
  /\ crashed = ""
  /\ crashed' = IF ~ok /\ release THEN "MOZ_RELEASE_ASSERT"
                ELSE IF ~ok /\ debug THEN "MOZ_ASSERT"
                ELSE crashed
  /\ obs' = [synced |-> FALSE, query |-> name, why |-> why, ok |-> ok,
             returned |-> crashed' = "", ret |-> ret]
  /\ UNCHANGED <<enc, hwNaN, debug, v, rhs>>

\* bool isMagic(JSWhyMagic why) const
Value_isMagic(why) ==
  IF ~isMagic(v.bits)
    THEN Query("isMagic", why, TRUE, FALSE, FALSE)
    ELSE Query("isMagic", why, whyMagic(v.bits) = why, TRUE, TRUE)

Value_extract(name) == Query(name, 0, AssertOf(name, v.bits), FALSE, FALSE)

\* traceKind() of v when the cell it points to, if any, has the kind cellKind;
\* a cell stored by setPrivateGCThing has the kind it was stored with
Value_traceKind(cellKind) ==
  /\ v.op = "setPrivateGCThing" => cellKind = v.arg.kind
  /\ Query("traceKind", 0, traceKind_assert(v.bits), FALSE,
           [cell |-> cellKind, kind |-> traceKind(v.bits, cellKind)])

MaxWhy == 11

\* the inputs of the specification with queries: a Value of every kind, and
\* words whose pointer is not cell-aligned
QueryInputs ==
  [int32 |-> {-1, 5},
   uint32 |-> {<<\hFFFF, \hFFFF>>},
   double |-> {<<\h3FF8, 0, 0, 0>>, CanonicalizedNaNBits,
               <<\hFFFF, \hFF80, 0, 0>>},
   float |-> {<<\h3FC0, 0>>},
   cell |-> {<<0, 0, 16, 8 * MaxCells>>, <<0, 0, 16, 4>>},
   private |-> {<<0, 0, 16, 2 * MaxCells>>},
   why |-> {MaxWhy - 1},
   kind |-> {"Shape", "String"},
   raw |-> {<<0, 0, 16, 4>>, <<1, 0, 16, 4>>, <<3, 0, 0, 4>>,
            <<\hFFFF, \hFF80, 0, 1>>, <<\hFFFF, \hFF87, 0, 4>>},
   int64 |-> {<<\hFFFF, \hFFFF, \hFFFF, \hFFFF>>},
   uint64 |-> {<<0, 0, \h8000, 0>>}]

NextQuery ==
  \/ Operations(QueryInputs)
  \/ \E why \in (MaxWhy - 1) .. MaxWhy : Value_isMagic(why)
  \/ \E name \in Extractors \ {"traceKind"} : Value_extract(name)
  \/ \E cellKind \in TraceKinds : Value_traceKind(cellKind)

SpecQuery == Init /\ [][NextQuery]_vars

(***************************************************************************)
(* The same calls in a build of each encoding.  enc names the build whose  *)
(* code runs: a call is made on v in the JS_NUNBOX32 build, then the same   *)
(* call with the same argument on rhs in the JS_PUNBOX64 build, and obs     *)
(* keeps what the API says of the Value in each build.                      *)
(***************************************************************************)
\* every predicate of the word, type(), and every extractor whose predicate
\* holds (its default otherwise)
Observe(bits) ==
  [preds |-> <<isUndefined(bits), isNull(bits), isNullOrUndefined(bits),
               isInt32(bits), isDouble(bits), isNumber(bits), isString(bits),
               isSymbol(bits), isBigInt(bits), isObject(bits),
               isPrimitive(bits), isObjectOrNull(bits), isGCThing(bits),
               isBoolean(bits), isMagic(bits), isPrivateGCThing(bits)>>,
   type |-> type(bits),
   toInt32 |-> IF isInt32(bits) THEN toInt32(bits) ELSE 0,
   toDouble |-> IF isDouble(bits) THEN toDouble(bits) ELSE Zero64,
   toNumber |-> IF isNumber(bits) THEN toNumber(bits) ELSE Zero64,
   toString |-> IF isString(bits) THEN toString(bits) ELSE Zero64,
   toSymbol |-> IF isSymbol(bits) THEN toSymbol(bits) ELSE Zero64,
   toBigInt |-> IF isBigInt(bits) THEN toBigInt(bits) ELSE Zero64,
   toObject |-> IF isObject(bits) THEN toObject(bits) ELSE Zero64,
   toObjectOrNull |-> IF isObjectOrNull(bits) THEN toObjectOrNull(bits) ELSE Zero64,
   toGCThing |-> IF isGCThing(bits) THEN toGCThing(bits) ELSE Zero64,
   toBoolean |-> isBoolean(bits) /\ toBoolean(bits),
   whyMagic |-> IF isMagic(bits) THEN whyMagic(bits) ELSE 0,
   magicUint32 |-> IF isMagic(bits) THEN magicUint32(bits) ELSE Zero32]

\* SameType and operator== of a word with another
Relate(bits, other) == <<SameType(bits, other), bits = other>>

\* the outcome of the call op(arg) on a Value holding bits
OutcomeOf(op, arg, bits) ==
  CASE op = "Value" -> Out(ValueDefault, TRUE, TRUE, FALSE)
    [] op = "setNull" -> setNull
    [] op = "setUndefined" -> setUndefined
    [] op = "setInt32" -> setInt32(arg)
    [] op = "setDouble" -> setDouble(arg)
    [] op = "setString" -> setString(arg)
    [] op = "setSymbol" -> setSymbol(arg)
    [] op = "setBigInt" -> setBigInt(arg)
    [] op = "setObject" -> setObject(arg)
    [] op = "setBoolean" -> setBoolean(arg)
    [] op = "setMagic" -> setMagic(arg)
    [] op = "setNumber_uint32" -> setNumber_uint32(arg)
    [] op = "setNumber_double" -> setNumber_double(arg)
    [] op = "setObjectOrNull" -> setObjectOrNull(arg)
    [] op = "setPrivate" -> setPrivate(bits, arg)
    [] op = "setPrivateUint32" -> setPrivateUint32(arg)
    [] op = "setPrivateGCThing" -> setPrivateGCThing(arg.cell, arg.kind)

\* the inputs of the two-build specification: pointers below 2^32; the double
\* 2^-1074 * 0x100010, whose bits are those of the pointer 0x100010; a NaN
\* above -NaN
EquivInputs ==
  [int32 |-> {-1, 5},
   uint32 |-> {<<0, 5>>, <<\hFFFF, \hFFFF>>},
   double |-> {DoubleOfInt32(5), <<\h3FF8, 0, 0, 0>>, <<0, 0, 16, 16>>,
               <<\hFFF8, 0, 0, 1>>},
   private |-> {<<0, 0, 16, 16>>},
   why |-> {10},
   kind |-> {"Shape", "String"}]

InitEquiv ==
  /\ enc = "NUNBOX32"
  /\ hwNaN \in BOOLEAN
  /\ debug \in BOOLEAN
  /\ v = Slot(ValueDefault, "Value", Zero64, TRUE, FALSE)
  /\ rhs = Slot(ValueDefault, "Value", Zero64, TRUE, FALSE)
  /\ crashed = ""
  /\ obs = [synced |-> FALSE, n |-> Observe(ValueDefault),
            p |-> Observe(ValueDefault), relN |-> <<TRUE, TRUE>>,
            relP |-> <<TRUE, TRUE>>, prevOk |-> FALSE, prevPrivate |-> FALSE]

\* the JS_PUNBOX64 build starts: its Value() is constructed by Equiv_replay
Equiv_start ==
  /\ enc = "NUNBOX32" /\ ~obs.synced /\ crashed = ""
  /\ enc' = "PUNBOX64"
  /\ UNCHANGED <<hwNaN, debug, v, rhs, crashed, obs>>

\* the call op(arg) on v in the JS_NUNBOX32 build
Equiv_call(op, arg) ==
  /\ enc = "NUNBOX32" /\ obs.synced /\ crashed = ""
  /\ LET out == OutcomeOf(op, arg, v.bits)
     IN  /\ v' = Slot(out.bits, op, arg, out.pre /\ out.post, out.ret)
         /\ obs' = [obs EXCEPT !.synced = FALSE, !.n = Observe(out.bits),
                               !.relN = Relate(out.bits, v.bits),
                               !.prevOk = v.ok /\ rhs.ok,
                               !.prevPrivate = v.op = "setPrivate"]
  /\ enc' = "PUNBOX64"
  /\ UNCHANGED <<hwNaN, debug, rhs, crashed>>

\* the same call on rhs in the JS_PUNBOX64 build; a DEBUG build aborts when
\* an assertion failed in either
Equiv_replay ==
  /\ enc = "PUNBOX64" /\ ~obs.synced /\ crashed = ""
  /\ LET out == OutcomeOf(v.op, v.arg, rhs.bits)
     IN  /\ rhs' = Slot(out.bits, v.op, v.arg, out.pre /\ out.post, out.ret)
         /\ obs' = [obs EXCEPT !.synced = TRUE, !.p = Observe(out.bits),
                               !.relP = Relate(out.bits, rhs.bits)]
         /\ crashed' = IF debug /\ ~(v.ok /\ out.pre /\ out.post)
                         THEN "MOZ_ASSERT" ELSE crashed
  /\ enc' = "NUNBOX32"
  /\ UNCHANGED <<hwNaN, debug, v>>

NextEquiv ==
  \/ Equiv_start
  \/ Equiv_replay
  \/ \E op \in {"setNull", "setUndefined"} : Equiv_call(op, Zero64)
  \/ \E i \in EquivInputs.int32 : Equiv_call("setInt32", i)
  \/ \E op \in {"setDouble", "setNumber_double"}, d \in EquivInputs.double :
       Equiv_call(op, d)
  \/ \E op \in {"setString", "setSymbol", "setBigInt", "setObject",
                "setObjectOrNull"} :
       Equiv_call(op, <<0, 0, 16, 8 * MaxCells>>)
  \/ Equiv_call("setObjectOrNull", Zero64)
  \/ \E b \in BOOLEAN : Equiv_call("setBoolean", b)
  \/ \E w \in EquivInputs.why : Equiv_call("setMagic", w)
  \/ \E op \in {"setNumber_uint32", "setPrivateUint32"},
        u \in EquivInputs.uint32 : Equiv_call(op, u)
  \/ \E p \in EquivInputs.private : Equiv_call("setPrivate", p)
  \/ \E k \in EquivInputs.kind :
       Equiv_call("setPrivateGCThing",
                  [cell |-> <<0, 0, 16, 8 * MaxCells>>, kind |-> k])

SpecEquiv == InitEquiv /\ [][NextEquiv]_vars

(***************************************************************************)
(* A Value in collector-managed heap storage: JS::Heap<JS::Value> and the   *)
(* setters HeapBase<JS::Value, Wrapper> gives it.  v is the slot.  A setter *)
(* is the barriered assignments it makes, in order; obs is the position in  *)
(* the running call and what it has done so far.                            *)
(***************************************************************************)
\* a variant of setBarriered that assigns twice
setBarriered_twice(out) == <<out, out>>

\* void setBarriered(const JS::Value& v): one assignment to the Heap<Value>
setBarriered(out) == <<out>>

\* the setters of HeapBase<JS::Value, Wrapper>, by name
RECURSIVE HeapBase(_, _)
HeapBase(op, arg) ==
  CASE op = "setNull" -> setBarriered(setNull)
    [] op = "setUndefined" -> setBarriered(Out(ValueDefault, TRUE, TRUE, FALSE))
    [] op = "setInt32" -> setBarriered(Out(fromInt32(arg), TRUE, TRUE, FALSE))
    [] op = "setDouble" -> setBarriered(setDouble(arg))
    [] op = "setNaN" -> HeapBase("setDouble", GenericNaN)
    [] op = "setBoolean" -> setBarriered(setBoolean(arg))
    [] op = "setMagic" -> setBarriered(setMagic(arg))
    [] op = "setString" -> setBarriered(setString(arg))
    [] op = "setSymbol" -> setBarriered(setSymbol(arg))
    [] op = "setBigInt" -> setBarriered(setBigInt(arg))
    [] op = "setObject" -> setBarriered(setObject(arg))
    [] op = "setPrivateGCThing" ->
         setBarriered(setPrivateGCThing(arg.cell, arg.kind))
    [] op = "setNumber_uint32" ->
         IF Gt(arg, Uint32OfInt(JSVAL_INT_MAX))
           THEN HeapBase("setDouble", DoubleOfUint32(arg))
         ELSE HeapBase("setInt32", Int32OfUint(arg))
    [] op = "setNumber_double" ->
         IF NumberIsInt32(arg).is
           THEN HeapBase("setInt32", NumberIsInt32(arg).i)
         ELSE HeapBase("setDouble", arg)
    [] op = "setObjectOrNull" ->
         IF arg # Zero64 THEN HeapBase("setObject", arg)
         ELSE HeapBase("setNull", Zero64)

\* obs while no setter is running
HeapIdle(op, barriers, stores, notified) ==
  [synced |-> FALSE, pc |-> "idle", op |-> op, todo |-> <<>>,
   barriers |-> barriers, stores |-> stores, notified |-> notified]

InitHeap ==
  /\ enc \in {"NUNBOX32", "PUNBOX64"}
  /\ hwNaN \in BOOLEAN
  /\ debug \in BOOLEAN
  /\ v = Slot(ValueDefault, "Value", Zero64, TRUE, FALSE)
  /\ rhs = Slot(ValueDefault, "Value", Zero64, TRUE, FALSE)
  /\ crashed = ""
  /\ obs = HeapIdle("", 0, 0, <<Zero64, Zero64>>)

\* a setter is called: its argument Values are made (a DEBUG build aborts on
\* a factory's failed assertion) and the assignments are pending
HeapBase_call(op, arg) ==
  /\ crashed = "" /\ obs.pc = "idle"
  /\ LET todo == HeapBase(op, arg)
         ok == \A k \in 1..Len(todo) : todo[k].pre /\ todo[k].post
     IN  IF debug /\ ~ok
           THEN crashed' = "MOZ_ASSERT" /\ obs' = obs
         ELSE /\ crashed' = crashed
              /\ obs' = [synced |-> FALSE, pc |-> "assign", op |-> op,
                         todo |-> todo, barriers |-> 0, stores |-> 0,
                         notified |-> <<Zero64, Zero64>>]
  /\ UNCHANGED <<enc, hwNaN, debug, v, rhs>>

\* Heap<Value>::operator=, first half: the write barrier is told of the slot,
\* the Value it holds and the Value it is about to hold
Heap_barrier ==
  /\ crashed = "" /\ obs.pc = "assign"
  /\ obs' = [obs EXCEPT !.pc = "store", !.barriers = @ + 1,
                        !.notified = <<v.bits, Head(obs.todo).bits>>]
  /\ UNCHANGED <<enc, hwNaN, debug, v, rhs, crashed>>

\* Heap<Value>::operator=, second half: the slot's bits are overwritten
Heap_store ==
  /\ crashed = "" /\ obs.pc = "store"
  /\ LET out == Head(obs.todo)
     IN  v' = Slot(out.bits, obs.op, Zero64, out.pre /\ out.post, out.ret)
  /\ obs' = [obs EXCEPT !.pc = IF Tail(obs.todo) = <<>> THEN "idle" ELSE "assign",
                        !.todo = Tail(@), !.stores = @ + 1]
  /\ UNCHANGED <<enc, hwNaN, debug, rhs, crashed>>

\* the inputs of the heap specification
HeapInputs ==
  [int32 |-> {5},
   uint32 |-> {<<0, 5>>, <<\hFFFF, \hFFFF>>},
   double |-> {DoubleOfInt32(5), <<\h3FF8, 0, 0, 0>>, <<\hFFF8, 0, 0, 0>>},
   cell |-> {<<0, 0, 16, 8 * MaxCells>>, Zero64},
   why |-> {10},
   kind |-> {"Shape", "String"}]

NextHeap ==
  \/ Heap_barrier
  \/ Heap_store
  \/ \E op \in {"setNull", "setUndefined", "setNaN"} : HeapBase_call(op, Zero64)
  \/ \E i \in HeapInputs.int32 : HeapBase_call("setInt32", i)
  \/ \E op \in {"setDouble", "setNumber_double"}, d \in HeapInputs.double :
       HeapBase_call(op, d)
  \/ \E b \in BOOLEAN : HeapBase_call("setBoolean", b)
  \/ \E w \in HeapInputs.why : HeapBase_call("setMagic", w)
  \/ \E op \in {"setString", "setSymbol", "setBigInt", "setObject",
                "setObjectOrNull"}, p \in HeapInputs.cell : HeapBase_call(op, p)
  \/ \E p \in HeapInputs.cell, k \in HeapInputs.kind :
       HeapBase_call("setPrivateGCThing", [cell |-> p, kind |-> k])
  \/ \E u \in HeapInputs.uint32 : HeapBase_call("setNumber_uint32", u)

SpecHeap == InitHeap /\ [][NextHeap]_vars

(***************************************************************************)
(* Properties.                                                             *)
(***************************************************************************)
\* the 11 base-kind predicates of a word, and how many of them hold
BasePredicates(bits) ==
  <<isDouble(bits), isInt32(bits), isBoolean(bits), isUndefined(bits),
    isNull(bits), isMagic(bits), isString(bits), isSymbol(bits),
    isPrivateGCThing(bits), isBigInt(bits), isObject(bits)>>

KindCount(bits) == Cardinality({k \in 1..11 : BasePredicates(bits)[k]})

\* a Value made by a mutator or a factory (not from raw bits) all of whose
\* assertions held
Built(s) == s.ok /\ s.op # "fromRawBits"

\* the high 17 bits of an address are clear: a canonical user-mode address
Below2To47(p) == Shr(p, 47) = Zero64

\* C1: after any sequence of mutators and factory calls whose assertions hold,
\* swap included, each Value satisfies exactly one of the 11 base-kind
\* predicates.
C1_ExactlyOneBaseKind ==
  /\ Built(v) => KindCount(v.bits) = 1
  /\ Built(rhs) => KindCount(rhs.bits) = 1

\* C1 witness: a double and a string Value have been made and swapped.
C1_Witness ==
  /\ v.op = "setDouble" /\ v.ok /\ isDouble(v.bits)
  /\ rhs.op = "setString" /\ rhs.ok /\ isString(rhs.bits)

ValidPointer(p) == p # Zero64 /\ p[4] % 8 = 0 /\ Below2To47(p)

\* C3: a Value answers its extractor with what it was built from: an int32
\* from Int32Value, a boolean from BooleanValue, the identical bits of a
\* non-NaN or canonical-NaN double from DoubleValue, the pointer from
\* StringValue, SymbolValue, BigIntValue and ObjectValue when the pointer is
\* valid, the reason from MagicValue and the payload from MagicValueUint32.
C3_RoundTrips ==
  /\ v.op \in {"Int32Value", "setInt32"} =>
       isInt32(v.bits) /\ toInt32(v.bits) = v.arg
  /\ v.op = "setBoolean" => isBoolean(v.bits) /\ (toBoolean(v.bits) <=> v.arg)
  /\ (v.op = "setDouble" /\ (~IsNaN(v.arg) \/ v.arg = <<\h7FF8, 0, 0, 0>>)) =>
       isDouble(v.bits) /\ toDouble(v.bits) = v.arg
  /\ (v.op = "setString" /\ ValidPointer(v.arg)) =>
       isString(v.bits) /\ toString(v.bits) = v.arg
  /\ (v.op = "setSymbol" /\ ValidPointer(v.arg)) =>
       isSymbol(v.bits) /\ toSymbol(v.bits) = v.arg
  /\ (v.op = "setBigInt" /\ ValidPointer(v.arg)) =>
       isBigInt(v.bits) /\ toBigInt(v.bits) = v.arg
  /\ (v.op = "setObject" /\ ValidPointer(v.arg)) =>
       isObject(v.bits) /\ toObject(v.bits) = v.arg
  /\ v.op = "setMagic" => isMagic(v.bits) /\ whyMagic(v.bits) = v.arg
  /\ v.op = "setMagicUint32" => isMagic(v.bits) /\ magicUint32(v.bits) = v.arg

\* C3 witness: DoubleValue(-0.0) has been built on JS_PUNBOX64 and toDouble
\* gives -0.0 back.
C3_Witness ==
  /\ PUNBOX64 /\ v.op = "setDouble" /\ v.arg = NegativeZero
  /\ v.bits # v.arg /\ toDouble(v.bits) = NegativeZero

\* C4: on JS_PUNBOX64 the word of ObjectValue(P), P non-null and below 2^47,
\* is P itself, and isObject holds of a word exactly when the word is at most
\* 0x00007FFFFFFFFFFF, that is when its top 17 bits are clear.
C4_ObjectIsRawPointer ==
  PUNBOX64 =>
    /\ (v.op = "setObject" /\ v.arg # Zero64 /\ Below2To47(v.arg)) =>
         asRawBits(v.bits) = v.arg
    /\ isObject(v.bits) <=> Le(v.bits, <<0, \h7FFF, \hFFFF, \hFFFF>>)
    /\ isObject(v.bits) <=> Below2To47(v.bits)

\* C4 witness: the word 0x00007FFFFFFFFFFF has been made on JS_PUNBOX64 and is
\* an object.
C4_Witness ==
  /\ PUNBOX64 /\ v.op = "fromRawBits"
  /\ v.bits = <<0, \h7FFF, \hFFFF, \hFFFF>> /\ isObject(v.bits)

\* C5: on JS_PUNBOX64 toString, toSymbol, toBigInt and toObject XOR the word
\* with the shifted tag they expect: a Value with that tag gives its payload,
\* and a Value with any other tag gives an address with one of its top 17 bits
\* set.
C5_XorUnboxing ==
  PUNBOX64 =>
    LET b == v.bits
    IN  /\ toString(b) = Xor(b, Shl(Widen(JSVAL_TAG_STRING), 47))
        /\ toSymbol(b) = Xor(b, Shl(Widen(JSVAL_TAG_SYMBOL), 47))
        /\ toBigInt(b) = Xor(b, Shl(Widen(JSVAL_TAG_BIGINT), 47))
        /\ toObject(b) = Xor(b, Shl(Widen(JSVAL_TAG_OBJECT), 47))
        /\ toTag(b) # JSVAL_TAG_STRING <=> ~Below2To47(toString(b))
        /\ toTag(b) # JSVAL_TAG_SYMBOL <=> ~Below2To47(toSymbol(b))
        /\ toTag(b) # JSVAL_TAG_BIGINT <=> ~Below2To47(toBigInt(b))
        /\ toTag(b) # JSVAL_TAG_OBJECT <=> ~Below2To47(toObject(b))

\* C5 witness: a symbol Value has been built on JS_PUNBOX64 and toString of it
\* is not a canonical address.
C5_Witness ==
  /\ PUNBOX64 /\ v.op = "setSymbol" /\ v.ok /\ isSymbol(v.bits)
  /\ ~Below2To47(toString(v.bits))

\* C6 as the specification states it: on JS_PUNBOX64 toObjectOrNull of a Value
\* that is neither an object nor null has one of its top 17 bits set.
C6_PoisonedUnlessObjectOrNull ==
  (PUNBOX64 /\ Built(v) /\ ~isObject(v.bits) /\ ~isNull(v.bits)) =>
    ~Below2To47(toObjectOrNull(v.bits))


\* the canonical quiet NaN, 0x7FF8000000000000
CanonicalNaNPattern == <<\h7FF8, 0, 0, 0>>

\* a NaN bit pattern: exponent all ones, significand not zero, either sign
IsNaNPattern(d) ==
  /\ (d[1] % 32768) \div 16 = 2047
  /\ (d[1] % 16 # 0 \/ d[2] # 0 \/ d[3] # 0 \/ d[4] # 0)

\* a built Value that holds a non-NaN double or the canonical NaN
CanonicalDouble(s) ==
  /\ Built(s) /\ isDouble(s.bits)
  /\ (~IsNaNPattern(toDouble(s.bits)) \/ toDouble(s.bits) = CanonicalNaNPattern)

\* C7 as the specification states it: SameType holds of any two numeric
\* Values, an int32 and a double included.
C7_AnyTwoNumbersSameType ==
  (Built(v) /\ Built(rhs) /\ isNumber(v.bits) /\ isNumber(rhs.bits)) =>
    SameType(v.bits, rhs.bits)

\* C7: in both encodings SameType holds of any two int32 Values and of any two
\* Values holding a non-NaN or canonical-NaN double, and does not hold of an
\* int32 Value and a double Value, in either order.
C7_SameTypeSeparatesInt32FromDouble ==
  /\ (CanonicalDouble(v) /\ CanonicalDouble(rhs)) => SameType(v.bits, rhs.bits)
  /\ (Built(v) /\ Built(rhs) /\ isInt32(v.bits) /\ isInt32(rhs.bits)) =>
       SameType(v.bits, rhs.bits)
  /\ (Built(v) /\ Built(rhs) /\ isInt32(v.bits) /\ isDouble(rhs.bits)) =>
       ~SameType(v.bits, rhs.bits) /\ ~SameType(rhs.bits, v.bits)

\* C7 witness: Int32Value(5) and DoubleValue(1.5) are held side by side and
\* SameType does not hold of them.
C7_Witness ==
  /\ v.op = "Int32Value" /\ v.arg = 5 /\ isInt32(v.bits)
  /\ rhs.op = "setDouble" /\ rhs.ok /\ rhs.arg = <<\h3FF8, 0, 0, 0>>
  /\ ~SameType(v.bits, rhs.bits)

\* IEEE-754 equality of two doubles, with NaN taken equal to NaN
SameNumber(x, y) ==
  \/ IsNaNPattern(x) /\ IsNaNPattern(y)
  \/ /\ ~IsNaNPattern(x) /\ ~IsNaNPattern(y)
     /\ (x = y \/ ({x, y} \subseteq {Zero64, NegativeZero}))

\* d is integral and within [-2^31, 2^31 - 1]; every such input of the model is
\* the double of an int32 input, or -0.0, which equals 0
IntegralInInt32Range(d) == \E i \in Int32Inputs : SameNumber(d, DoubleOfInt32(i))

\* C8 as the specification states it: setNumber(double d) stores an int32
\* exactly when d is integral and within [-2^31, 2^31 - 1], returns whether it
\* did, and toNumber of the stored Value equals d.
C8_Int32WheneverIntegral ==
  (v.op = "setNumber_double" /\ v.ok) =>
    /\ isInt32(v.bits) <=> IntegralInInt32Range(v.arg)
    /\ v.ret <=> isInt32(v.bits)
    /\ SameNumber(toNumber(v.bits), v.arg)

\* C8: for every input that passes the assertions, setNumber(double d) stores
\* an int32 Value and returns true exactly when d is integral, within
\* [-2^31, 2^31 - 1] and not -0.0, and otherwise stores a double Value and
\* returns false; setNumber(uint32_t u) and NumberValue(uint32_t u) store an
\* int32 when u <= 2^31 - 1 and a double equal to u otherwise; the returned
\* flag equals isInt32() of the stored Value; toNumber() of the stored Value
\* equals the input, bit for bit when the input is not a NaN.
C8_Int32WhenLossless ==
  /\ (v.op = "setNumber_double" /\ v.ok) =>
       /\ isInt32(v.bits) <=>
            (IntegralInInt32Range(v.arg) /\ v.arg # NegativeZero)
       /\ ~isInt32(v.bits) => isDouble(v.bits)
       /\ v.ret <=> isInt32(v.bits)
       /\ SameNumber(toNumber(v.bits), v.arg)
       /\ ~IsNaNPattern(v.arg) => toNumber(v.bits) = v.arg
  /\ v.op \in {"setNumber_uint32", "NumberValue_uint32"} =>
       /\ isInt32(v.bits) <=> Le(v.arg, <<\h7FFF, \hFFFF>>)
       /\ ~isInt32(v.bits) => isDouble(v.bits)
       /\ toNumber(v.bits) = DoubleOfUint32(v.arg)
  /\ v.op = "setNumber_uint32" => (v.ret <=> isInt32(v.bits))

\* C8 witness: setNumber(-0.0) has stored a double and returned false.
C8_Witness ==
  /\ v.op = "setNumber_double" /\ v.ok /\ v.arg = NegativeZero
  /\ isDouble(v.bits) /\ ~v.ret /\ toNumber(v.bits) = NegativeZero

\* the double a standard entry point is given, when the Value was stored by
\* one: setDouble and DoubleValue, setNumber(double) and NumberValue(double)
\* on a double that is no int32, Float32Value
StoredByEntryPoint(s) ==
  \/ s.op \in {"setDouble", "Float32Value"}
  \/ s.op = "setNumber_double" /\ ~s.ret

DoubleGiven(s) == IF s.op = "Float32Value" THEN DoubleOfFloat(s.arg) ELSE s.arg

\* C9 as the specification states it: every NaN stored through a standard
\* entry point is stored with the bits of NaNValue().
C9_EveryEntryPointCanonicalizes ==
  (StoredByEntryPoint(v) /\ IsNaNPattern(DoubleGiven(v))) =>
    v.bits = NaNValueRawBits

\* C9: a NaN stored through setDouble, DoubleValue, Float32Value,
\* setNumber(double) or NumberValue(double) has the bits of NaNValue() in a
\* build with JS_NONCANONICAL_HARDWARE_NAN; in any other build it has them
\* exactly when the NaN given is already the canonical one, and otherwise
\* keeps its own sign and payload.  CanonicalizedDoubleValue stores every NaN
\* with the bits of NaNValue() in every build, and those bits are
\* 0x7FF8000000000000, plus the double offset on JS_PUNBOX64.
C9_CanonicalWhereConfigured ==
  /\ (StoredByEntryPoint(v) /\ IsNaNPattern(DoubleGiven(v))) =>
       /\ hwNaN => v.bits = NaNValueRawBits
       /\ ~hwNaN =>
            /\ v.bits = NaNValueRawBits <=> DoubleGiven(v) = CanonicalNaNPattern
            /\ toDouble(v.bits) = DoubleGiven(v)
  /\ (v.op = "CanonicalizedDoubleValue" /\ IsNaNPattern(v.arg)) =>
       v.bits = NaNValueRawBits
  /\ v.op = "NaNValue" =>
       /\ v.bits = NaNValueRawBits
       /\ v.bits = IF PUNBOX64 THEN <<\h7FFF, \hFFFF, \hFFFF, \hFFFF>>
                   ELSE CanonicalNaNPattern

\* C9 witness: in a build without JS_NONCANONICAL_HARDWARE_NAN setDouble has
\* stored the NaN 0x7FF8000000000001 as it is.
C9_Witness ==
  /\ ~hwNaN /\ v.op = "setDouble" /\ v.ok
  /\ v.arg = <<\h7FF8, 0, 0, 1>> /\ toDouble(v.bits) = v.arg
  /\ v.bits # NaNValueRawBits

\* C10: CanonicalizeNaN gives 0x7FF8000000000000 for every NaN bit pattern,
\* gives every other double back bit for bit, and applied twice gives what it
\* gives applied once; CanonicalizedDoubleValue holds what it gives.
C10_CanonicalizeNaN ==
  v.op \in {"CanonicalizedDoubleValue", "setDouble", "setNumber_double"} =>
    LET d == v.arg
        c == CanonicalizeNaN(d)
    IN  /\ IsNaNPattern(d) => c = CanonicalNaNPattern
        /\ ~IsNaNPattern(d) => c = d
        /\ CanonicalizeNaN(c) = c
        /\ v.op = "CanonicalizedDoubleValue" =>
             isDouble(v.bits) /\ toDouble(v.bits) = c

\* C10 witness: CanonicalizedDoubleValue of the NaN with every bit set holds
\* the canonical NaN.
C10_Witness ==
  /\ v.op = "CanonicalizedDoubleValue"
  /\ v.arg = <<\hFFFF, \hFFFF, \hFFFF, \hFFFF>>
  /\ toDouble(v.bits) = CanonicalNaNPattern

\* the largest double bit pattern the JS_PUNBOX64 offset does not wrap: -NaN,
\* 0xFFF8000000000000
GreatestBoxableDouble == <<\hFFF8, 0, 0, 0>>

\* the JS_PUNBOX64 boxing of the layout comment: uint64_t(d) + ADJ
BoxedDouble(d) == Add(d, <<\h0007, \hFFFF, \hFFFF, \hFFFF>>)

\* the largest word with a non-double tag: JSVAL_TAG_MAX_NON_DOUBLE and every
\* payload bit
GreatestTaggedWord == <<\h0007, \h7FFF, \hFFFF, \hFFFF>>

\* C11 as the specification states it: on JS_PUNBOX64 the boxed word of every
\* double given to setDouble is at least ValueBoxedMinDouble, is a double and
\* a number, and the addition does not wrap.
C11_EveryDoubleBoxesAboveTags ==
  (PUNBOX64 /\ v.op = "setDouble") =>
    LET w == BoxedDouble(v.arg)
    IN  /\ Ge(w, ValueBoxedMinDouble) /\ Ge(w, v.arg)
        /\ isDouble(w) /\ isNumber(w)

\* C11: on JS_PUNBOX64, for every double d whose bits are at most
\* 0xFFF8000000000000 (every non-NaN double, the canonical NaN and every NaN
\* up to -NaN) the word setDouble stores is the bits of d plus
\* 0x0007FFFFFFFFFFFF, is at least ValueBoxedMinDouble and above every
\* non-double tagged word, is a double and a number, and the addition does
\* not wrap; for a NaN with greater bits the addition wraps below
\* ValueBoxedMinDouble, and setDouble stores that word, no double, unless the
\* build canonicalizes the NaN first.
C11_BoxableDoublesAboveTags ==
  (PUNBOX64 /\ v.op = "setDouble") =>
    LET d == v.arg
        w == BoxedDouble(d)
    IN  /\ Le(d, GreatestBoxableDouble) =>
             /\ (~IsNaNPattern(d) \/ ~hwNaN) => v.bits = w
             /\ Ge(v.bits, ValueBoxedMinDouble) /\ Gt(v.bits, GreatestTaggedWord)
             /\ isDouble(v.bits) /\ isNumber(v.bits) /\ v.ok
             /\ Ge(w, d)
        /\ Gt(d, GreatestBoxableDouble) =>
             /\ Lt(w, d) /\ Lt(w, ValueBoxedMinDouble)
             /\ ~hwNaN => (v.bits = w /\ ~isDouble(v.bits) /\ ~v.ok)
             /\ hwNaN => (v.bits = NaNValueRawBits /\ isDouble(v.bits))

\* C11 witness: setDouble(+0.0) on JS_PUNBOX64 has stored ValueBoxedMinDouble
\* itself, the least boxed double.
C11_Witness ==
  /\ PUNBOX64 /\ v.op = "setDouble" /\ v.arg = Zero64
  /\ v.bits = <<\h0007, \hFFFF, \hFFFF, \hFFFF>> /\ isDouble(v.bits)

\* the clear constant 0xFFFFFF80 and the double 1.5
ClearConstant == <<\hFFFF, \hFF80>>
OneAndAHalf == <<\h3FF8, 0, 0, 0>>

\* the tag half of a word under JS_NUNBOX32
TagHalf(bits) == <<bits[1], bits[2]>>

UnusedTag(bits) ==
  IF PUNBOX64
    THEN \/ Ge(bits, <<\h0005, 0, 0, 0>>) /\ Lt(bits, <<\h0007, \hFFFF, \hFFFF, \hFFFF>>)
         \/ Gt(bits, <<\h0002, \h8000, 0, 0>>) /\ Lt(bits, <<\h0003, 0, 0, 0>>)
         \/ Gt(bits, <<\h0003, 0, 0, 0>>) /\ Lt(bits, <<\h0003, \h8000, 0, 0>>)
  ELSE /\ Gt(TagHalf(bits), ClearConstant)
       /\ bits[2] \notin ((65409 .. 65417) \cup {65420})

\* C13 as the specification states it: every word taken through fromRawBits
\* satisfies exactly one of the 11 base-kind predicates.
C13_EveryWordHasAKind ==
  v.op = "fromRawBits" => KindCount(v.bits) = 1

\* C13: every word taken through fromRawBits satisfies at most one of the 11
\* base-kind predicates, and none exactly when its tag is one no kind uses or,
\* on JS_PUNBOX64, is the undefined or null tag over a payload that is not 0;
\* a word at or above ValueBoxedMinDouble (JS_PUNBOX64), or with a tag half at
\* or below 0xFFFFFF80 (JS_NUNBOX32), satisfies isDouble.
C13_AtMostOneKind ==
  v.op = "fromRawBits" =>
    /\ asRawBits(v.bits) = v.arg
    /\ KindCount(v.bits) <= 1
    /\ KindCount(v.bits) = 0 <=> UnusedTag(v.bits)
    /\ isDouble(v.bits) <=>
         IF PUNBOX64 THEN Ge(v.bits, <<\h0007, \hFFFF, \hFFFF, \hFFFF>>)
         ELSE Le(TagHalf(v.bits), ClearConstant)

\* C13 witness: the word 0x0005000000000000 has been taken through
\* fromRawBits on JS_PUNBOX64 and satisfies no base-kind predicate.
C13_Witness ==
  /\ PUNBOX64 /\ v.op = "fromRawBits" /\ v.bits = <<\h0005, 0, 0, 0>>
  /\ KindCount(v.bits) = 0

(***************************************************************************)
(* C14: the two encodings seen through the API                             *)
(***************************************************************************)
\* the last call has run in both builds and no assertion failed in either
RanInBoth == obs.synced /\ v.ok /\ rhs.ok

\* the call before it, likewise
PreviousRanInBoth == obs.prevOk

C15_IsMagicWhy ==
  /\ obs.query = "isMagic" =>
       /\ ~isMagic(v.bits) =>
            obs.ok /\ obs.returned /\ ~obs.ret /\ crashed = ""
       /\ (isMagic(v.bits) /\ magicUint32(v.bits) = Uint32OfInt(obs.why)) =>
            obs.returned /\ obs.ret /\ crashed = ""
       /\ (isMagic(v.bits) /\ magicUint32(v.bits) # Uint32OfInt(obs.why)) =>
            ~obs.returned /\ crashed = "MOZ_RELEASE_ASSERT"
       /\ v.op = "setMagic" => (obs.returned /\ obs.ret <=> v.arg = obs.why)
  /\ (obs.query \in {"whyMagic", "magicUint32"} /\ ~isMagic(v.bits)) =>
       /\ ~obs.ok
       /\ IF debug THEN crashed = "MOZ_ASSERT" /\ ~obs.returned
          ELSE crashed = "" /\ obs.returned

C15_Witness ==
  /\ obs.query = "isMagic" /\ ~debug
  /\ v.op = "setMagic" /\ v.arg # obs.why
  /\ crashed = "MOZ_RELEASE_ASSERT"

(***************************************************************************)
(* C16: what the checked extractors assert                                 *)
(***************************************************************************)
\* the predicate C16 pairs with each extractor
PredicateOf(name, bits) ==
  CASE name = "toInt32" -> isInt32(bits)
    [] name = "toDouble" -> isDouble(bits)
    [] name = "toNumber" -> isNumber(bits)
    [] name = "toString" -> isString(bits)
    [] name = "toSymbol" -> isSymbol(bits)
    [] name = "toBigInt" -> isBigInt(bits)
    [] name = "toObject" -> isObject(bits)
    [] name = "toObjectOrNull" -> isObjectOrNull(bits)
    [] name \in {"toGCThing", "traceKind"} -> isGCThing(bits)
    [] name = "toBoolean" -> isBoolean(bits)
    [] name \in {"whyMagic", "magicUint32"} -> isMagic(bits)

\* the extractors that pass their assertions on a Value a mutator stored with
\* its own assertions holding
Allowed(op) ==
  CASE op = "setInt32" -> {"toInt32", "toNumber"}
    [] op = "setString" -> {"toString", "toGCThing", "traceKind"}
    [] op = "setSymbol" -> {"toSymbol", "toGCThing", "traceKind"}
    [] op = "setBigInt" -> {"toBigInt", "toGCThing", "traceKind"}
    [] op = "setObject" -> {"toObject", "toObjectOrNull", "toGCThing", "traceKind"}
    [] op = "setPrivateGCThing" -> {"toGCThing", "traceKind"}
    [] op = "setBoolean" -> {"toBoolean"}
    [] op \in {"setMagic", "setMagicUint32"} -> {"whyMagic", "magicUint32"}
    [] op = "setNull" -> {"toObjectOrNull"}
    [] op = "setUndefined" -> {}

\* what an extractor asserts beyond its predicate: on JS_PUNBOX64 that the
\* pointer it returns has its low three bits clear (toObject, toObjectOrNull,
\* toGCThing, and traceKind of a private GC thing, which calls toGCThing); on
\* JS_NUNBOX32 that a number's tag is not JSVAL_TAG_CLEAR (isNumber itself);
\* and that a number which is not a double is an int32 (toNumber calls
\* toInt32), which the JS_PUNBOX64 tags 0xA..0xF are not
AssertsMore(name, bits) ==
  \/ /\ PUNBOX64
     /\ bits[4] % 8 # 0
     /\ \/ name \in {"toObject", "toObjectOrNull", "toGCThing"}
        \/ name = "traceKind" /\ isPrivateGCThing(bits)
  \/ NUNBOX32 /\ name = "toNumber" /\ toTag(bits) = JSVAL_TAG_CLEAR
  \/ name = "toNumber" /\ ~isDouble(bits) /\ ~isInt32(bits)

\* C16 as stated: each extractor's assertions hold exactly when its predicate
\* does.
C16_AssertsExactlyPredicate ==
  obs.query \in Extractors => (obs.ok <=> PredicateOf(obs.query, v.bits))

\* C16 amended: an extractor called on a Value for which its predicate is
\* false fails an assertion; called on one for which the predicate is true it
\* fails an assertion exactly when it asserts more than the predicate; and a
\* failed assertion aborts a DEBUG build only.
C16_AssertsPredicateAndAlignment ==
  obs.query \in Extractors =>
    /\ obs.ok <=> (/\ PredicateOf(obs.query, v.bits)
                   /\ ~AssertsMore(obs.query, v.bits))
    /\ (v.ok /\ v.op \in DOMAIN [o \in {"setInt32", "setString", "setSymbol",
          "setBigInt", "setObject", "setPrivateGCThing", "setBoolean",
          "setMagic", "setMagicUint32", "setNull", "setUndefined"} |-> 0]) =>
         (obs.ok <=> obs.query \in Allowed(v.op))
    /\ obs.returned <=> (obs.ok \/ ~debug)
    /\ ~obs.returned <=> crashed = "MOZ_ASSERT"

C16_Witness ==
  /\ obs.query = "toObject" /\ PUNBOX64 /\ debug
  /\ v.op = "fromRawBits" /\ isObject(v.bits) /\ v.bits[4] % 8 # 0
  /\ crashed = "MOZ_ASSERT"

(***************************************************************************)
(* C17: the generic NumberValue<T>                                         *)
(***************************************************************************)
\* the number the double d holds is exactly the int64_t (the uint64_t) t
DoubleIsInt64(d, t) == FitsInt64(d) /\ Int64OfDouble(d) = {t} /\ DoubleOfInt64(t) = d
DoubleIsUint64(d, t) ==
  FitsUint64(d) /\ Uint64OfDouble(d) = {t} /\ DoubleOfUint64(t) = d

\* t is within [-2^31, 2^31 - 1]
InInt32Range(t) ==
  \/ t[1] = 0 /\ t[2] = 0 /\ t[3] < 32768
  \/ t[1] = Limb - 1 /\ t[2] = Limb - 1 /\ t[3] >= 32768

\* C17: NumberValue<T>(t) passes its assertion exactly when the double nearest
\* to t is t itself, and for every accepted t the Value is the int32 t when t
\* is within the int32 range (at most 2^31 - 1 for unsigned T) and otherwise
\* a double whose number is t.
C17_RejectsLossyKeepsValue ==
  /\ v.op = "NumberValue_int64" =>
       /\ v.ok <=> DoubleIsInt64(DoubleOfInt64(v.arg), v.arg)
       /\ v.ok =>
            IF InInt32Range(v.arg)
              THEN isInt32(v.bits) /\ Int64OfInt32(toInt32(v.bits)) = v.arg
            ELSE isDouble(v.bits) /\ DoubleIsInt64(toDouble(v.bits), v.arg)
  /\ v.op = "NumberValue_uint64" =>
       /\ v.ok <=> DoubleIsUint64(DoubleOfUint64(v.arg), v.arg)
       /\ v.ok =>
            IF Le(v.arg, <<0, 0, \h7FFF, \hFFFF>>)
              THEN isInt32(v.bits) /\ Int64OfInt32(toInt32(v.bits)) = v.arg
            ELSE isDouble(v.bits) /\ DoubleIsUint64(toDouble(v.bits), v.arg)

(***************************************************************************)
(* C18: setPrivateGCThing                                                  *)
(***************************************************************************)
\* the trace kinds that have a Value type of their own
OwnValueKinds == {"String", "Symbol", "BigInt", "Object"}

\* the Value is a private GC thing holding cell, and nothing else
HoldsPrivateGCThing(bits, cell) ==
  /\ isPrivateGCThing(bits) /\ isGCThing(bits)
  /\ toGCThing(bits) = cell
  /\ ~isString(bits) /\ ~isSymbol(bits) /\ ~isBigInt(bits) /\ ~isObject(bits)

\* C18 as stated: no build stores a cell whose kind is String, Symbol, BigInt
\* or Object (the call fails and the Value stays as it was), and a cell of
\* another kind is stored as a private GC thing.
C18_NeverStoresOwnValueKinds ==
  v.op = "setPrivateGCThing" =>
    /\ v.arg.kind \notin OwnValueKinds
    /\ (IsCellPointerValid(v.arg.cell) /\ Below2To47(v.arg.cell)) =>
         HoldsPrivateGCThing(v.bits, v.arg.cell)

\* C18 amended: a DEBUG build never stores a cell whose kind is String, Symbol,
\* BigInt or Object (setPrivateGCThing aborts before the store); a release
\* build stores it like any other.  Whatever the kind, a valid cell
\* address (non-null, aligned, below 2^47) is stored as a private GC thing
\* holding the cell, and the call's assertions hold exactly for such a cell
\* of another kind.
C18_DebugRefusesReleaseStores ==
  v.op = "setPrivateGCThing" =>
    /\ v.arg.kind \in OwnValueKinds => ~debug /\ ~v.ok
    /\ v.ok <=> /\ v.arg.kind \notin OwnValueKinds
                /\ IsCellPointerValid(v.arg.cell)
                /\ PUNBOX64 => Below2To47(v.arg.cell)
    /\ (IsCellPointerValid(v.arg.cell) /\ Below2To47(v.arg.cell)) =>
         HoldsPrivateGCThing(v.bits, v.arg.cell)

C18_Witness ==
  /\ v.op = "setPrivateGCThing" /\ v.arg.kind = "String" /\ ~debug
  /\ HoldsPrivateGCThing(v.bits, v.arg.cell)

(***************************************************************************)
(* C19: PrivateValue(ptr)                                                  *)
(***************************************************************************)
\* the word is what the build stores for some non-NaN double or for the
\* canonical NaN
StoredCanonicalDouble(bits) ==
  IF NUNBOX32 THEN ~IsNaNPattern(bits) \/ bits = CanonicalNaNPattern
  ELSE /\ Ge(bits, <<\h0007, \hFFFF, \hFFFF, \hFFFF>>)
       /\ LET d == Sub(bits, <<\h0007, \hFFFF, \hFFFF, \hFFFF>>)
          IN  ~IsNaNPattern(d) \/ d = CanonicalNaNPattern

\* C19 as stated: in both encodings a Value made by PrivateValue(ptr) for an
\* even ptr is a double to isDouble, no GC thing, and its word is never the
\* stored word of a non-NaN double or of the canonical NaN.
C19_NeverACanonicalDouble ==
  (v.op = "setPrivate" /\ v.ok) =>
    /\ isDouble(v.bits) /\ ~isGCThing(v.bits)
    /\ ~StoredCanonicalDouble(v.bits)

\* C19 amended: PrivateValue(ptr) passes its assertions exactly for an even
\* ptr, and the Value is then a double to isDouble and no GC thing.  Under
\* JS_PUNBOX64 its word is not the stored word of a non-NaN double or of the
\* canonical NaN when ptr is below 2^52 - 2; under JS_NUNBOX32 its word is
\* always the word of a non-NaN double, the one whose bits are the pointer.
C19_DoubleToTheCollector ==
  v.op = "setPrivate" =>
    /\ v.ok <=> v.arg[4] % 2 = 0
    /\ v.ok =>
         /\ isDouble(v.bits) /\ ~isGCThing(v.bits)
         /\ (PUNBOX64 /\ Lt(v.arg, <<\h000F, \hFFFF, \hFFFF, \hFFFE>>)) =>
              ~StoredCanonicalDouble(v.bits)
         /\ NUNBOX32 =>
              /\ StoredCanonicalDouble(v.bits)
              /\ v.bits = fromDouble(v.arg)

C19_Witness ==
  /\ v.op = "setPrivate" /\ v.ok /\ PUNBOX64
  /\ v.arg = <<\h000F, \hFFFF, \hFFFF, \hFFFC>>
  /\ isDouble(v.bits) /\ ~StoredCanonicalDouble(v.bits)

C22_TraceKindFromTag ==
  (obs.query = "traceKind" /\ isGCThing(v.bits)) =>
    /\ isString(v.bits) => obs.ret.kind = "String"
    /\ isSymbol(v.bits) => obs.ret.kind = "Symbol"
    /\ isBigInt(v.bits) => obs.ret.kind = "BigInt"
    /\ isObject(v.bits) => obs.ret.kind = "Object"
    /\ isPrivateGCThing(v.bits) => obs.ret.kind = obs.ret.cell
    /\ (v.ok /\ v.op \in {"setString", "setSymbol", "setBigInt", "setObject"}) =>
         /\ obs.ok
         /\ obs.ret.kind = (CASE v.op = "setString" -> "String"
                              [] v.op = "setSymbol" -> "Symbol"
                              [] v.op = "setBigInt" -> "BigInt"
                              [] v.op = "setObject" -> "Object")

C22_Witness ==
  /\ obs.query = "traceKind" /\ PUNBOX64 /\ obs.returned
  /\ v.op = "setBigInt" /\ v.ok
  /\ toTag(v.bits)[2] % 4 = 0
  /\ obs.ret = [cell |-> "Object", kind |-> "BigInt"]

(***************************************************************************)
(* C23: objects or null                                                    *)
(***************************************************************************)
\* C23: toObjectOrNull gives P for the object Value of a valid pointer P and
\* null for the null Value; ObjectOrNullValue(p) is the null Value for a null
\* p and the object Value of p otherwise; isObjectOrNull holds of both and
\* toObjectOrNull(ObjectOrNullValue(p)) = p.
C23_ObjectOrNullRoundTrips ==
  /\ (v.op = "setObject" /\ ValidPointer(v.arg)) =>
       /\ isObjectOrNull(v.bits) /\ toObjectOrNull_assert(v.bits)
       /\ toObjectOrNull(v.bits) = v.arg
  /\ v.op = "setNull" =>
       /\ isObjectOrNull(v.bits) /\ toObjectOrNull_assert(v.bits)
       /\ toObjectOrNull(v.bits) = Zero64
  /\ (v.op = "setObjectOrNull" /\ (v.arg = Zero64 \/ ValidPointer(v.arg))) =>
       /\ v.ok
       /\ v.arg = Zero64 => (v.bits = setNull.bits /\ isNull(v.bits))
       /\ v.arg # Zero64 => (v.bits = setObject(v.arg).bits /\ isObject(v.bits))
       /\ isObjectOrNull(v.bits) /\ toObjectOrNull_assert(v.bits)
       /\ toObjectOrNull(v.bits) = v.arg

C23_Witness ==
  /\ PUNBOX64 /\ v.op = "setObjectOrNull" /\ v.arg = Zero64
  /\ v.bits # Zero64 /\ toObjectOrNull(v.bits) = Zero64

(***************************************************************************)
(* C24: a mis-typed extraction from a string Value                         *)
(***************************************************************************)
\* C24 as the specification states it: toDouble of the string Value of a
\* pointer S, in a build that lets the call return, is not S but S XORed with
\* the string tag constant (or, reading S as the Value's word, that word XORed
\* with the constant).
C24_DoubleExtractionXorsStringTag ==
  (obs.query = "toDouble" /\ obs.returned /\ v.op = "setString" /\ v.ok
     /\ ValidPointer(v.arg)) =>
    /\ toDouble(v.bits) # v.arg
    /\ PUNBOX64 => toDouble(v.bits) \in {Xor(v.arg, JSVAL_SHIFTED_TAG_STRING),
                                         Xor(v.bits, JSVAL_SHIFTED_TAG_STRING)}

\* C24: toDouble of the string Value of a valid pointer S fails its assertion
\* and, where the call returns, does not return S.  On JS_PUNBOX64 the word is
\* S XOR (2 << 47) and toDouble returns that word minus ValueDoubleAdjust,
\* which is S + 0xFFF9000000000001, a NaN pattern, and neither S nor the word;
\* on JS_NUNBOX32 it returns the whole word, S under the tag half 0xFFFFFF86.
\* The XOR is in the pointer extractors: toString of the object Value of a
\* valid pointer P returns P XOR (2 << 47) on JS_PUNBOX64, an address at or
\* above 2^47.
C24_MistypedExtraction ==
  /\ (obs.query = "toDouble" /\ v.op = "setString" /\ v.ok /\ ValidPointer(v.arg)) =>
       /\ ~obs.ok
       /\ obs.returned <=> ~debug
       /\ toDouble(v.bits) # v.arg
       /\ PUNBOX64 =>
            /\ v.bits = Xor(v.arg, <<1, 0, 0, 0>>)
            /\ toDouble(v.bits) = Sub(v.bits, ValueDoubleAdjust)
            /\ toDouble(v.bits) = Add(v.arg, <<\hFFF9, 0, 0, 1>>)
            /\ toDouble(v.bits) # v.bits
            /\ IsNaN(toDouble(v.bits))
       /\ NUNBOX32 =>
            /\ toDouble(v.bits) = v.bits
            /\ v.bits = <<\hFFFF, \hFF86, v.arg[3], v.arg[4]>>
  /\ (obs.query = "toString" /\ v.op = "setObject" /\ v.ok /\ ValidPointer(v.arg)
        /\ PUNBOX64) =>
       /\ ~obs.ok
       /\ toString(v.bits) = Xor(v.arg, <<1, 0, 0, 0>>)
       /\ ~Below2To47(toString(v.bits))

C24_Witness ==
  /\ obs.query = "toDouble" /\ obs.returned /\ ~obs.ok /\ PUNBOX64
  /\ v.op = "setString" /\ v.ok /\ v.arg = <<0, 0, 16, 16>>
  /\ toDouble(v.bits) = <<\hFFF9, 0, 16, 17>>

(***************************************************************************)
(* C25: what each mutator asserts after its store                          *)
(***************************************************************************)
\* a double that setDouble stores as a double without canonicalizing it: bits
\* at most 0xFFF8000000000000 under JS_PUNBOX64, high word at most 0xFFFFFF80
\* under JS_NUNBOX32; every non-NaN double is one
StoresAsDouble(d) ==
  IF PUNBOX64 THEN Le(d, GreatestBoxableDouble) ELSE Le(TagHalf(d), ClearConstant)

\* C25 as the specification states it: after setDouble(d) isDouble() holds for
\* every double d, every NaN included.
C25_SetDoubleOfEveryDouble == v.op = "setDouble" => isDouble(v.bits)

\* C25: after setDouble(d) isDouble() holds exactly when the build
\* canonicalizes NaNs or d is a non-NaN double or a NaN stored as a double
\* (bits at most 0xFFF8000000000000 on JS_PUNBOX64, high word at most
\* 0xFFFFFF80 on JS_NUNBOX32); after setInt32(i) toInt32() = i; after
\* setBoolean(b) toBoolean() = b; after setNull isNull(); after setUndefined
\* isUndefined(); after setMagic(w) whyMagic() = w; after setMagicUint32(p)
\* magicUint32() = p; after setString, setSymbol, setBigInt and setObject of a
\* valid pointer the matching extractor returns it; after setPrivate(ptr)
\* isDouble() holds; and in each of these cases but setPrivate of an odd ptr
\* every assertion of the mutator holds.
C25_MutatorPostconditions ==
  /\ v.op = "setDouble" =>
       /\ isDouble(v.bits) <=> (hwNaN \/ StoresAsDouble(v.arg))
       /\ v.ok <=> isDouble(v.bits)
       /\ ~IsNaNPattern(v.arg) => StoresAsDouble(v.arg)
  /\ v.op = "setInt32" => (v.ok /\ isInt32(v.bits) /\ toInt32(v.bits) = v.arg)
  /\ v.op = "setBoolean" =>
       (v.ok /\ isBoolean(v.bits) /\ (toBoolean(v.bits) <=> v.arg))
  /\ v.op = "setNull" => (v.ok /\ isNull(v.bits))
  /\ v.op = "setUndefined" => (v.ok /\ isUndefined(v.bits))
  /\ v.op = "setMagic" =>
       (v.ok /\ whyMagic_assert(v.bits) /\ whyMagic(v.bits) = v.arg)
  /\ v.op = "setMagicUint32" =>
       (v.ok /\ isMagic(v.bits) /\ magicUint32(v.bits) = v.arg)
  /\ (v.op = "setString" /\ ValidPointer(v.arg)) =>
       (v.ok /\ toString_assert(v.bits) /\ toString(v.bits) = v.arg)
  /\ (v.op = "setSymbol" /\ ValidPointer(v.arg)) =>
       (v.ok /\ toSymbol_assert(v.bits) /\ toSymbol(v.bits) = v.arg)
  /\ (v.op = "setBigInt" /\ ValidPointer(v.arg)) =>
       (v.ok /\ toBigInt_assert(v.bits) /\ toBigInt(v.bits) = v.arg)
  /\ (v.op = "setObject" /\ ValidPointer(v.arg)) =>
       (v.ok /\ toObject_assert(v.bits) /\ toObject(v.bits) = v.arg)
  /\ v.op = "setPrivate" => (isDouble(v.bits) /\ (v.ok <=> v.arg[4] % 2 = 0))

C25_Witness ==
  /\ v.op = "setDouble" /\ ~hwNaN /\ v.ok
  /\ IsNaNPattern(v.arg) /\ v.arg # CanonicalNaNPattern
  /\ v.arg[1] >= 32768 /\ isDouble(v.bits)

(***************************************************************************)
(* C26: PrivateValue(ptr).toPrivate()                                      *)
(***************************************************************************)
\* C26: for every even ptr (64 bits wide on JS_PUNBOX64, 32 on JS_NUNBOX32)
\* PrivateValue(ptr) passes its assertions, toPrivate() of it is ptr, and
\* toPrivate's assertions hold of it: isDouble() and, on JS_PUNBOX64, the
\* private bit is set.
C26_PrivateRoundTrips ==
  (v.op = "setPrivate" /\ v.arg[4] % 2 = 0) =>
    /\ v.ok
    /\ NUNBOX32 => (v.arg[1] = 0 /\ v.arg[2] = 0)
    /\ isDouble(v.bits)
    /\ PUNBOX64 => And(v.bits, ValuePrivateDoubleBit) # Zero64
    /\ toPrivate(v.bits) = v.arg

C26_Witness ==
  /\ v.op = "setPrivate" /\ PUNBOX64 /\ v.ok
  /\ v.arg = <<\hFFFF, \hFFFF, \hFFFF, \hFFFE>>
  /\ v.bits = <<\hFFFF, \hFFFF, \hFFFF, \hFFFF>>
  /\ toPrivate(v.bits) = v.arg

(***************************************************************************)
(* C27: SameType and type()                                                *)
(***************************************************************************)
\* a Value built with its assertions holding which, if isDouble() holds of
\* it, holds a non-NaN double or the canonical NaN, or was made by
\* PrivateValue
BuiltCanonical(s) ==
  Built(s) /\ (isDouble(s.bits) => (CanonicalDouble(s) \/ s.op = "setPrivate"))

\* C27: for two Values built by factories or mutators, doubles canonical,
\* SameType(a, b) holds exactly when a.type() = b.type(), in both encodings;
\* for any two words SameType is reflexive and symmetric, and holds of equal
\* words.
C27_SameTypeIsEqualType ==
  /\ (BuiltCanonical(v) /\ BuiltCanonical(rhs)) =>
       /\ type_assert(v.bits) /\ type_assert(rhs.bits)
       /\ SameType(v.bits, rhs.bits) <=> type(v.bits) = type(rhs.bits)
  /\ SameType(v.bits, v.bits) /\ SameType(rhs.bits, rhs.bits)
  /\ SameType(v.bits, rhs.bits) <=> SameType(rhs.bits, v.bits)
  /\ v.bits = rhs.bits => SameType(v.bits, rhs.bits)

C27_Witness ==
  /\ NUNBOX32 /\ BuiltCanonical(v) /\ BuiltCanonical(rhs)
  /\ v.op = "setPrivate" /\ rhs.op = "setDouble" /\ v.bits # rhs.bits
  /\ SameType(v.bits, rhs.bits) /\ type(v.bits) = JSVAL_TYPE_DOUBLE

(***************************************************************************)
(* C28: type() and the predicates                                          *)
(***************************************************************************)
\* the JSValueType of each base kind, in the order of BasePredicates
BaseTypes ==
  <<JSVAL_TYPE_DOUBLE, JSVAL_TYPE_INT32, JSVAL_TYPE_BOOLEAN, JSVAL_TYPE_UNDEFINED,
    JSVAL_TYPE_NULL, JSVAL_TYPE_MAGIC, JSVAL_TYPE_STRING, JSVAL_TYPE_SYMBOL,
    JSVAL_TYPE_PRIVATE_GCTHING, JSVAL_TYPE_BIGINT, JSVAL_TYPE_OBJECT>>

\* C28: for every Value built by a factory or mutator, type() is the type K
\* whose predicate is-K holds of it and the assertions of extractNonDoubleType
\* and type() hold; on JS_PUNBOX64 JSValueTagToType and ValueTypeToTag are
\* inverses of each other over the ten non-double kinds, and on JS_NUNBOX32
\* the low four bits of a kind's tag are its type.
C28_TypeAgreesWithPredicates ==
  /\ Built(v) =>
       /\ type_assert(v.bits)
       /\ \A k \in 1..11 : BasePredicates(v.bits)[k] <=> type(v.bits) = BaseTypes[k]
  /\ \A k \in 2..11 :
       LET tag == ValueTypeToTag(BaseTypes[k])
       IN  /\ PUNBOX64 =>
                /\ JSValueTagToType(tag) = BaseTypes[k]
                /\ tag # JSVAL_TAG_UNKNOWN
                /\ \A j \in 2..11 :
                     JSValueTagToType(tag) = BaseTypes[j] =>
                       ValueTypeToTag(BaseTypes[j]) = tag
           /\ NUNBOX32 => (tag[2] % 16 = BaseTypes[k] /\ Gt(tag, JSVAL_TAG_CLEAR))

C28_Witness ==
  /\ PUNBOX64 /\ Built(v) /\ v.op = "setPrivateGCThing"
  /\ toTag(v.bits) = <<0, 1>> /\ type(v.bits) = 8
  /\ isPrivateGCThing(v.bits)

(***************************************************************************)
(* C29: toGCThing() and the extractors of each kind                        *)
(***************************************************************************)
\* the pointer a built Value was given, if it was given a valid one
CellGiven(s) ==
  CASE s.op \in {"setString", "setSymbol", "setBigInt", "setObject",
                 "setObjectOrNull"} -> s.arg
    [] s.op = "setPrivateGCThing" -> s.arg.cell
    [] OTHER -> Zero64

\* C29: for a GC-thing Value built from a valid pointer p, toGCThing() passes
\* its assertions and returns p, as does the extractor of the Value's kind
\* (toString, toSymbol, toBigInt, toObject); asGCThingOrNull returns p for
\* such a Value, toGCThing() for any GC-thing Value and null for every other
\* Value.
C29_GCThingExtractorsAgree ==
  /\ (Built(v) /\ ValidPointer(CellGiven(v))) =>
       /\ isGCThing(v.bits) /\ toGCThing_assert(v.bits)
       /\ toGCThing(v.bits) = CellGiven(v)
       /\ asGCThingOrNull(v.bits) = CellGiven(v)
       /\ v.op = "setString" => toGCThing(v.bits) = toString(v.bits)
       /\ v.op = "setSymbol" => toGCThing(v.bits) = toSymbol(v.bits)
       /\ v.op = "setBigInt" => toGCThing(v.bits) = toBigInt(v.bits)
       /\ v.op \in {"setObject", "setObjectOrNull"} =>
            toGCThing(v.bits) = toObject(v.bits)
       /\ v.op = "setPrivateGCThing" => isPrivateGCThing(v.bits)
  /\ (Built(v) /\ ~ValidPointer(CellGiven(v))) =>
       (~isGCThing(v.bits) /\ asGCThingOrNull(v.bits) = Zero64)
  /\ isGCThing(v.bits) => asGCThingOrNull(v.bits) = toGCThing(v.bits)
  /\ ~isGCThing(v.bits) => asGCThingOrNull(v.bits) = Zero64

C29_Witness ==
  /\ PUNBOX64 /\ Built(v) /\ v.op = "setBigInt" /\ ValidPointer(v.arg)
  /\ v.bits # v.arg
  /\ toGCThing(v.bits) = v.arg /\ toBigInt(v.bits) = v.arg
  /\ asGCThingOrNull(v.bits) = v.arg

(***************************************************************************)
(* C30: a Value is its 64 bits                                             *)
(***************************************************************************)
\* the mutators whose outcome OutcomeOf gives
Mutators ==
  {"setNull", "setUndefined", "setInt32", "setDouble", "setString", "setSymbol",
   "setBigInt", "setObject", "setBoolean", "setMagic", "setNumber_uint32",
   "setNumber_double", "setObjectOrNull", "setPrivate", "setPrivateUint32",
   "setPrivateGCThing"}

\* C30: after any sequence of mutators and swaps, the word of a Value last
\* written by a mutator is the word a default-constructed Value has after that
\* mutator alone with the same argument, setPrivate under JS_NUNBOX32
\* included; a default-constructed Value is the undefined Value; swap leaves
\* in each Value the word the other had, and a second swap right after puts
\* both words back.
C30_NothingBeyondTheWord ==
  /\ v.op \in Mutators => v.bits = OutcomeOf(v.op, v.arg, ValueDefault).bits
  /\ rhs.op \in Mutators => rhs.bits = OutcomeOf(rhs.op, rhs.arg, ValueDefault).bits
  /\ v.op = "setMagicUint32" => v.bits = setMagicUint32(v.arg).bits
  /\ v.op = "Value" =>
       (v.bits = ValueDefault /\ isUndefined(v.bits) /\ v.bits = setUndefined.bits)
  /\ obs.query = "swap" =>
       /\ v.bits = obs.ret.before[2] /\ rhs.bits = obs.ret.before[1]
       /\ obs.ret.earlier # <<>> => <<v.bits, rhs.bits>> = obs.ret.earlier

C30_Witness ==
  /\ NUNBOX32 /\ obs.query = "swap" /\ obs.ret.earlier # <<>>
  /\ v.bits # rhs.bits
  /\ v.op = "setPrivate" /\ v.ok /\ rhs.op = "setString"
  /\ v.bits = <<0, 0, v.arg[3], v.arg[4]>>

=============================================================================
